---- MODULE Spec2Model ----
(***************************************************************************)
(* ContentFlow: the content workflow of one content item.                  *)
(*                                                                         *)
(* The store is Motia's key-value state (collections content, workflow,    *)
(* validation, ai_analysis, recommendations, votes).  Every handler is a   *)
(* process that holds a private copy of the content record (contentState)  *)
(* between its awaits; one step of the model is the code between two       *)
(* awaits together with the awaited store operation, push, emit or LLM     *)
(* call.  Handlers of different steps interleave at their awaits.          *)
(***************************************************************************)
EXTENDS Naturals, Integers, Sequences, FiniteSets, Bags, TLC

(***************************************************************************)
(* Bounds of the model.                                                    *)
(***************************************************************************)
MaxImprove == 1   \* POST /content/:id/improve requests
MaxApply == 1     \* POST /content/:id/apply-improvement requests
MaxImproveAgain == 2   \* improve requests on an item at rest
MaxVote == 3      \* vote requests
MaxRetention == 1 \* runs of the retention job
MaxGet == 2       \* GET /content/:id requests
MaxComment == 2   \* add-comment requests
MaxClock == 2     \* milliseconds of the clock
MaxMaxRetries == 2   \* largest maxRetries option of a fetchWithRetry call
MaxSockets == 4      \* WebSockets a stream client creates
MaxCalls == 3        \* calls of connect, subscribe and disconnect by the client's user

(***************************************************************************)
(* Optional values: <<>> is undefined/null, <<x>> is x.                    *)
(***************************************************************************)
None == <<>>
Some(x) == <<x>>
IsSome(o) == Len(o) > 0
Val(o) == o[1]

(***************************************************************************)
(* Program constants.                                                      *)
(***************************************************************************)
MIN_BODY_LENGTH == 100
ShortTitle == 10
ShortBody == 500
SUPPORTED_LANGUAGES == {"en", "es", "fr", "de", "it", "pt"}

\* String.prototype.toLowerCase on the language codes the model submits.
ToLowerCase(s) ==
  CASE s = "EN" -> "en"
    [] s = "Fr" -> "fr"
    [] OTHER -> s

\* Inputs of POST /content: body and title are modelled by their lengths.
Bodies == {60, 150}
Titles == {12}
Languages == {"en", "EN", "xx"}

\* Bodies the LLM returns for a rewrite, after trim and fence stripping
\* (0 is the empty response).
ImprovedBodies == {0, 80, 200}

(***************************************************************************)
(* Validation rules.                                                       *)
(***************************************************************************)
\* A check that only asks for a language code to be present.
LanguagePresent(language) == language # ""

IsSupportedLanguage(language) == ToLowerCase(language) \in SUPPORTED_LANGUAGES

\* A check of the body against the limit of the title.
BodyShorterThanTitleLimit(body) == body < ShortTitle

BodyTooShort(body) == body < MIN_BODY_LENGTH

\* errors.length of the validation rules
ValidationErrors(cs) ==
  (IF BodyTooShort(cs.body) THEN 1 ELSE 0)
  + (IF ~IsSupportedLanguage(cs.language) THEN 1 ELSE 0)

ValidationWarnings(cs) ==
  (IF cs.title < ShortTitle THEN 1 ELSE 0)
  + (IF cs.body < ShortBody THEN 1 ELSE 0)

ValidationResultOf(cs) ==
  [isValid |-> ValidationErrors(cs) = 0,
   errors |-> ValidationErrors(cs),
   warnings |-> ValidationWarnings(cs)]

(***************************************************************************)
(* AI analysis: the parsed LLM answer and the stored AIAnalysisResult.     *)
(* An answer that is not JSON has json = FALSE.  Arrays are modelled by    *)
(* their lengths.                                                          *)
(***************************************************************************)
Clamp(n) == IF n < 0 THEN 0 ELSE IF n > 100 THEN 100 ELSE n

LLMAnswers ==
  { [json |-> FALSE, sentiment |-> "", qualityScore |-> 0,
     readabilityScore |-> 0, topics |-> 0, weaknesses |-> 0],
    [json |-> TRUE, sentiment |-> "positive", qualityScore |-> 120,
     readabilityScore |-> 70, topics |-> 3, weaknesses |-> 0],
    [json |-> TRUE, sentiment |-> "negative", qualityScore |-> 40,
     readabilityScore |-> 55, topics |-> 1, weaknesses |-> 2] }

\* The fallback analysisData of a parse failure, then the construction of
\* aiAnalysis from analysisData.
AnalysisOf(answer) ==
  IF answer.json
  THEN [sentiment |-> IF answer.sentiment = "" THEN "neutral" ELSE answer.sentiment,
        qualityScore |-> Clamp(answer.qualityScore),
        readabilityScore |-> Clamp(answer.readabilityScore),
        topics |-> answer.topics,
        weaknesses |-> answer.weaknesses]
  ELSE [sentiment |-> "neutral", qualityScore |-> Clamp(50),
        readabilityScore |-> Clamp(50), topics |-> 0, weaknesses |-> 0]

(***************************************************************************)
(* The analysis in full.  A text is a sequence of characters.  A parsed    *)
(* answer (analysisData) is "error" when JSON.parse throws, "null" when it *)
(* yields null, and otherwise an object whose fields are None when absent  *)
(* or of the wrong type.                                                   *)
(***************************************************************************)
SummaryChars == 200
LastRunIds == 100
DefaultScore == 50

Min(a, b) == IF a <= b THEN a ELSE b

IsSpace(c) == c = " "

\* A count of the words only, without the empty pieces at the ends.
WordCountNonEmpty(body) ==
  Cardinality({i \in 1..Len(body) :
                 ~IsSpace(body[i]) /\ (i = 1 \/ IsSpace(body[i - 1]))})

\* body.split(/\s+/).length: every maximal run of whitespace separates two
\* pieces, empty pieces at the ends included.
WordCount(body) ==
  Cardinality({i \in 1..Len(body) :
                 IsSpace(body[i]) /\ (i = 1 \/ ~IsSpace(body[i - 1]))}) + 1

\* body.substring(0, 200) + '...'
Summary(body) == SubSeq(body, 1, Min(Len(body), SummaryChars)) \o <<".", ".", ".">>

\* The analysisData of the catch (parseError) block.
FallbackAnalysisData(body) ==
  [parsed |-> "object", sentiment |-> Some("neutral"), topics |-> Some(0),
   readabilityScore |-> Some(DefaultScore), wordCount |-> Some(WordCount(body)),
   qualityScore |-> Some(DefaultScore), summary |-> Some(Summary(body)),
   strengths |-> Some(0), weaknesses |-> Some(0)]

AnalysisDataOf(answer, body) ==
  IF answer.parsed = "error" THEN FallbackAnalysisData(body) ELSE answer

\* typeof score === 'number' ? Math.max(0, Math.min(100, score)) : 50
ScoreOf(score) ==
  IF IsSome(score) THEN Clamp(Val(score)) ELSE DefaultScore

\* The construction of aiAnalysis from analysisData.
AIAnalysisOf(data, body) ==
  [sentiment |-> IF IsSome(data.sentiment) /\ Val(data.sentiment) # ""
                 THEN Val(data.sentiment) ELSE "neutral",
   topics |-> IF IsSome(data.topics) THEN Val(data.topics) ELSE 0,
   readabilityScore |-> ScoreOf(data.readabilityScore),
   wordCount |-> IF IsSome(data.wordCount) THEN Val(data.wordCount) ELSE WordCount(body),
   qualityScore |-> ScoreOf(data.qualityScore),
   summary |-> IF IsSome(data.summary) /\ Len(Val(data.summary)) > 0
               THEN Val(data.summary) ELSE Summary(body),
   strengths |-> IF IsSome(data.strengths) THEN Val(data.strengths) ELSE 0,
   weaknesses |-> IF IsSome(data.weaknesses) THEN Val(data.weaknesses) ELSE 0]

\* Bodies as texts: at least MIN_BODY_LENGTH characters, with whitespace at
\* the start, at the end and in runs.
Pad(n) == [i \in 1..n |-> "a"]

BodyTexts ==
  {head \o Pad(MIN_BODY_LENGTH) \o tail :
     head \in {<<>>, <<" ">>},
     tail \in {<<>>, <<" ">>, <<" ", " ", "a">>, <<" ", "a", " ", "a">>}}
  \cup {Pad(SummaryChars + 50)}

\* The fields of an answer besides sentiment and qualityScore.
AnswerProfiles ==
  { [topics |-> None, readabilityScore |-> None, wordCount |-> None,
     summary |-> None, strengths |-> None, weaknesses |-> None],
    [topics |-> Some(3), readabilityScore |-> Some(70), wordCount |-> Some(7),
     summary |-> Some(<<"s">>), strengths |-> Some(1), weaknesses |-> Some(0)],
    [topics |-> Some(1), readabilityScore |-> Some(101), wordCount |-> Some(0),
     summary |-> Some(<<>>), strengths |-> Some(0), weaknesses |-> Some(2)],
    [topics |-> Some(2), readabilityScore |-> Some(0 - 7), wordCount |-> Some(120),
     summary |-> Some(<<"s">>), strengths |-> Some(2), weaknesses |-> Some(1)] }

ScoreValues ==
  {None, Some(0 - 5), Some(0), Some(59), Some(60), Some(79), Some(80),
   Some(100), Some(130)}

SentimentValues == {None, Some(""), Some("positive"), Some("negative")}

NoFields ==
  [topics |-> None, readabilityScore |-> None, wordCount |-> None,
   summary |-> None, strengths |-> None, weaknesses |-> None,
   sentiment |-> None, qualityScore |-> None]

ParsedAnswers ==
  { [parsed |-> "object", sentiment |-> s, qualityScore |-> q,
     topics |-> p.topics, readabilityScore |-> p.readabilityScore,
     wordCount |-> p.wordCount, summary |-> p.summary,
     strengths |-> p.strengths, weaknesses |-> p.weaknesses] :
       s \in SentimentValues, q \in ScoreValues, p \in AnswerProfiles }
  \cup { NoFields @@ [parsed |-> k] : k \in {"error", "null"} }

(***************************************************************************)
(* Recommendation rules.                                                   *)
(***************************************************************************)
Rec(id, type, title, priority) ==
  [id |-> id, type |-> type, title |-> title, priority |-> priority, votes |-> None]

\* The publishing rule with its first threshold exclusive.
PublishRecAbove80(ai) ==
  IF ai.qualityScore > 80 /\ ai.sentiment = "positive"
  THEN Rec("publish_1", "publish", "Ready to Publish", "high")
  ELSE IF ai.qualityScore >= 60
  THEN Rec("publish_2", "publish", "Publish with Minor Edits", "medium")
  ELSE Rec("review_1", "review", "Needs Review Before Publishing", "high")

PublishRec(ai) ==
  IF ai.qualityScore >= 80 /\ ai.sentiment = "positive"
  THEN Rec("publish_1", "publish", "Ready to Publish", "high")
  ELSE IF ai.qualityScore >= 60
  THEN Rec("publish_2", "publish", "Publish with Minor Edits", "medium")
  ELSE Rec("review_1", "review", "Needs Review Before Publishing", "high")

\* The rules without the review branch of the publishing rule.
GenerateRecsWithoutReview(ai) ==
  (IF ai.qualityScore >= 60 THEN <<PublishRec(ai)>> ELSE <<>>)
  \o (IF ai.weaknesses > 0
      THEN <<Rec("improve_1", "improve", "Address Content Weaknesses",
                 IF ai.qualityScore < 60 THEN "high" ELSE "medium")>>
      ELSE <<>>)
  \o (IF ai.readabilityScore < 60
      THEN <<Rec("optimize_1", "optimize", "Improve Readability", "medium")>>
      ELSE <<>>)
  \o (IF ai.topics > 0 /\ ai.topics < 3
      THEN <<Rec("optimize_2", "optimize", "Expand Topic Coverage", "low")>>
      ELSE <<>>)

GenerateRecs(ai) ==
  <<PublishRec(ai)>>
  \o (IF ai.weaknesses > 0
      THEN <<Rec("improve_1", "improve", "Address Content Weaknesses",
                 IF ai.qualityScore < 60 THEN "high" ELSE "medium")>>
      ELSE <<>>)
  \o (IF ai.readabilityScore < 60
      THEN <<Rec("optimize_1", "optimize", "Improve Readability", "medium")>>
      ELSE <<>>)
  \o (IF ai.topics > 0 /\ ai.topics < 3
      THEN <<Rec("optimize_2", "optimize", "Expand Topic Coverage", "low")>>
      ELSE <<>>)

(***************************************************************************)
(* State.                                                                  *)
(***************************************************************************)
VARIABLES
  content,    \* state 'content' of the item: None or Some(ContentState)
  workflow,   \* state 'workflow' of the item: None or Some(status)
  coll,       \* state 'validation', 'ai_analysis', 'recommendations' of the item
  events,     \* bag of emitted events not yet delivered to their subscriber
  h,          \* the handler invocations: position and private copies
  env,        \* deployment: whether MISTRAL_API_KEY is set, and which of the
              \* two ApplyImprovedContent steps is the one deployed
  count,      \* requests made so far, per bounded request kind
  furthest,   \* history: furthest stage whose status write reached 'content'
  submitted   \* history: the body and language POST /content stored

vars == <<content, workflow, coll, events, h, env, count, furthest, submitted>>

Handlers ==
  {"CreateContent", "ValidateContent", "AnalyzeWithAI", "GenerateRecommendations",
   "RequestContentImprovement", "GenerateImprovedContent", "ApplyImprovedContent",
   "DeleteContent"}

\* A handler that is not running.  wrote, pushed, emitted and resp record what
\* the current invocation has done so far: the last workflow status it wrote
\* to 'content' and to 'workflow', the notification it pushed, the topic it
\* emitted (both counted when attempted, with whether the attempt failed) and
\* the HTTP status it answered.
Idle ==
  [pc |-> "idle", cs |-> None, ai |-> None, wrote |-> "", pushed |-> "",
   wroteWf |-> "", emitted |-> "", pushFailed |-> FALSE, emitFailed |-> FALSE,
   resp |-> 0]

Event(topic, ai) == [topic |-> topic, ai |-> ai]

Emit(topic, ai) == events (+) SetToBag({Event(topic, ai)})
Deliver(e) == events (-) SetToBag({e})

InitialContent(title, body, language) ==
  [title |-> title, body |-> body, language |-> language,
   workflowStatus |-> "pending", validationResult |-> None,
   aiAnalysis |-> None, recommendations |-> None, improvedContent |-> None]

Init ==
  /\ content = None
  /\ workflow = None
  /\ coll = [validation |-> None, ai_analysis |-> None, recommendations |-> None]
  /\ events = EmptyBag
  /\ h = [n \in Handlers |-> Idle]
  /\ env \in [apiKey : BOOLEAN, apply : {"simple", "reanalyze"}]
  /\ count = [create |-> 0, improve |-> 0, apply |-> 0, delete |-> 0]
  /\ furthest = 0
  /\ submitted = None

\* A finished invocation returns before any other step is taken: returning
\* changes nothing but the record of what the invocation did.
NoneDone == \A n \in Handlers : h[n].pc # "done"

\* Handler n is at position pc and may take its next step.
At(n, pc) == h[n].pc = pc /\ NoneDone

\* The handler n ends its invocation.
Return(n) ==
  /\ h[n].pc = "done"
  /\ h' = [h EXCEPT ![n] = Idle]
  /\ UNCHANGED <<content, workflow, coll, events, env, count, furthest, submitted>>

(***************************************************************************)
(* POST /content (CreateContent).                                          *)
(***************************************************************************)
CreateContentStart ==
  /\ At("CreateContent", "idle")
  /\ count.create = 0
  /\ count' = [count EXCEPT !.create = 1]
  /\ \E title \in Titles \cup {0}, body \in Bodies, language \in Languages :
       IF title = 0
       THEN \* a required field is missing
            /\ h' = [h EXCEPT !["CreateContent"] = [Idle EXCEPT !.pc = "done", !.resp = 400]]
            /\ UNCHANGED <<content, furthest, submitted>>
       ELSE /\ content' = Some(InitialContent(title, body, language))
            /\ submitted' = Some([body |-> body, language |-> language])
            /\ furthest' = 0
            /\ h' = [h EXCEPT !["CreateContent"] =
                       [Idle EXCEPT !.pc = "setWorkflow", !.wrote = "pending",
                                    !.cs = content']]
  /\ UNCHANGED <<workflow, coll, events, env>>

CreateContentSetWorkflow ==
  /\ At("CreateContent", "setWorkflow")
  /\ workflow' = Some("pending")
  /\ h' = [h EXCEPT !["CreateContent"].pc = "emit",
                    !["CreateContent"].wroteWf = "pending"]
  /\ UNCHANGED <<content, coll, events, env, count, furthest, submitted>>

CreateContentEmit ==
  /\ At("CreateContent", "emit")
  /\ \E ok \in BOOLEAN :
       IF ok
       THEN /\ events' = Emit("content.created", None)
            /\ h' = [h EXCEPT !["CreateContent"].pc = "done",
                              !["CreateContent"].emitted = "content.created",
                              !["CreateContent"].resp = 201]
       ELSE /\ events' = events
            /\ h' = [h EXCEPT !["CreateContent"].pc = "done",
                              !["CreateContent"].emitted = "content.created",
                              !["CreateContent"].emitFailed = TRUE,
                              !["CreateContent"].resp = 500]
  /\ UNCHANGED <<content, workflow, coll, env, count, furthest, submitted>>

(***************************************************************************)
(* Steps shared by the handlers.                                           *)
(***************************************************************************)
StageRank(status) ==
  CASE status = "validated" -> 1
    [] status = "analyzed" -> 2
    [] status = "completed" -> 3
    [] OTHER -> 0

Max(a, b) == IF a >= b THEN a ELSE b

\* await state.set('content', contentId, contentState) of handler n at
\* position from, going to position to.  stage tells whether this is the
\* write of the handler's stage result.
SetContent(n, from, to, stage) ==
  /\ At(n, from)
  /\ content' = h[n].cs
  /\ h' = [h EXCEPT ![n].pc = to, ![n].wrote = Val(h[n].cs).workflowStatus]
  /\ furthest' = IF stage THEN Max(furthest, StageRank(Val(h[n].cs).workflowStatus))
                 ELSE furthest
  /\ UNCHANGED <<workflow, coll, events, env, count, submitted>>

\* await state.set('workflow', contentId, {status, contentId})
SetWorkflow(n, from, to) ==
  /\ At(n, from)
  /\ workflow' = Some(Val(h[n].cs).workflowStatus)
  /\ h' = [h EXCEPT ![n].pc = to, ![n].wroteWf = Val(h[n].cs).workflowStatus]
  /\ UNCHANGED <<content, coll, events, env, count, furthest, submitted>>

\* await state.set('content', ...) followed by the await state.set of a
\* collection that no other handler reads or writes (validation,
\* ai_analysis, recommendations): one step.
SetContentAnd(n, from, to, stage, collection, value) ==
  /\ At(n, from)
  /\ content' = h[n].cs
  /\ coll' = [coll EXCEPT ![collection] = value]
  /\ h' = [h EXCEPT ![n].pc = to, ![n].wrote = Val(h[n].cs).workflowStatus]
  /\ furthest' = IF stage THEN Max(furthest, StageRank(Val(h[n].cs).workflowStatus))
                 ELSE furthest
  /\ UNCHANGED <<workflow, events, env, count, submitted>>

\* await streams.contentUpdates.send(...) inside try/catch: a failure is
\* logged and the handler goes on.  The stream is no state of the model.
PushWrapped(n, from, to, type) ==
  /\ At(n, from)
  /\ \E ok \in BOOLEAN :
       h' = [h EXCEPT ![n].pc = to, ![n].pushed = type, ![n].pushFailed = ~ok]
  /\ UNCHANGED <<content, workflow, coll, events, env, count, furthest, submitted>>

\* await streams.contentUpdates.send(...) not wrapped: a failure throws to
\* the handler's catch, which is position caught.
PushBare(n, from, to, caught, type) ==
  /\ At(n, from)
  /\ \E ok \in BOOLEAN :
       h' = [h EXCEPT ![n].pc = IF ok THEN to ELSE caught,
                      ![n].pushed = type, ![n].pushFailed = ~ok]
  /\ UNCHANGED <<content, workflow, coll, events, env, count, furthest, submitted>>

\* await emit({topic, data}) as the last statement of an event handler; in
\* a try/catch or not, a failure is logged and the handler ends.
EmitLast(n, from, topic, ai) ==
  /\ At(n, from)
  /\ \E ok \in BOOLEAN :
       /\ events' = IF ok THEN Emit(topic, ai) ELSE events
       /\ h' = [h EXCEPT ![n].pc = "done", ![n].emitted = topic,
                         ![n].emitFailed = ~ok]
  /\ UNCHANGED <<content, workflow, coll, env, count, furthest, submitted>>

\* Topics that have a subscriber among the handlers.
Subscribed ==
  {"content.created", "content.validated", "content.analyzed",
   "content.improvement.requested"}

(***************************************************************************)
(* ValidateContent, subscribed to content.created.                         *)
(***************************************************************************)
ValidateStart ==
  /\ At("ValidateContent", "idle")
  /\ \E e \in BagToSet(events) :
       /\ e.topic = "content.created"
       /\ events' = Deliver(e)
  /\ IF IsSome(content)
     THEN h' = [h EXCEPT !["ValidateContent"] =
                  [Idle EXCEPT !.pc = "setContent",
                     !.cs = Some([Val(content) EXCEPT
                              !.validationResult = Some(ValidationResultOf(Val(content)))])]]
     ELSE h' = [h EXCEPT !["ValidateContent"] = [Idle EXCEPT !.pc = "done"]]
  /\ UNCHANGED <<content, workflow, coll, env, count, furthest, submitted>>

\* state.set('content', ...) with the validation result, state.set('validation',
\* ...), then the branch on isValid with the assignment of the new
\* workflowStatus to the private copy.
ValidateSetContent ==
  LET me == h["ValidateContent"]
      vr == Val(Val(me.cs).validationResult)
  IN /\ At("ValidateContent", "setContent")
     /\ content' = me.cs
     /\ coll' = [coll EXCEPT !.validation = Some(vr)]
     /\ h' = [h EXCEPT !["ValidateContent"].pc =
                         IF vr.isValid THEN "setValidated" ELSE "setRejected",
                       !["ValidateContent"].wrote = Val(me.cs).workflowStatus,
                       !["ValidateContent"].cs =
                         Some([Val(me.cs) EXCEPT !.workflowStatus =
                                 IF vr.isValid THEN "validated" ELSE "rejected"])]
     /\ UNCHANGED <<workflow, events, env, count, furthest, submitted>>

ValidateSetRejected ==
  SetContent("ValidateContent", "setRejected", "setRejectedWorkflow", TRUE)

ValidateSetRejectedWorkflow ==
  SetWorkflow("ValidateContent", "setRejectedWorkflow", "emitRejected")

ValidateEmitRejected ==
  EmitLast("ValidateContent", "emitRejected", "content.rejected", None)

ValidateSetValidated ==
  SetContent("ValidateContent", "setValidated", "setValidatedWorkflow", TRUE)

ValidateSetValidatedWorkflow ==
  SetWorkflow("ValidateContent", "setValidatedWorkflow", "push")

ValidatePush ==
  PushBare("ValidateContent", "push", "emitValidated", "done", "validation_completed")

ValidateEmitValidated ==
  EmitLast("ValidateContent", "emitValidated", "content.validated", None)

Validate ==
  \/ ValidateStart
  \/ ValidateSetContent
  \/ ValidateSetRejected
  \/ ValidateSetRejectedWorkflow
  \/ ValidateEmitRejected
  \/ ValidateSetValidated
  \/ ValidateSetValidatedWorkflow
  \/ ValidatePush
  \/ ValidateEmitValidated

(***************************************************************************)
(* AnalyzeWithAI, subscribed to content.validated.                         *)
(***************************************************************************)
\* A start of the analysis that goes on to its emission whether or not it
\* finds the item.
AnalyzeStartUnchecked ==
  /\ At("AnalyzeWithAI", "idle")
  /\ \E e \in BagToSet(events) :
       /\ e.topic = "content.validated"
       /\ events' = Deliver(e)
  /\ h' = [h EXCEPT !["AnalyzeWithAI"] = [Idle EXCEPT !.pc = "emit"]]
  /\ UNCHANGED <<content, workflow, coll, env, count, furthest, submitted>>

AnalyzeStart ==
  /\ At("AnalyzeWithAI", "idle")
  /\ \E e \in BagToSet(events) :
       /\ e.topic = "content.validated"
       /\ events' = Deliver(e)
  /\ IF ~env.apiKey
     THEN \* throw new Error('MISTRAL_API_KEY environment variable is required')
          h' = [h EXCEPT !["AnalyzeWithAI"] = [Idle EXCEPT !.pc = "catchGet"]]
     ELSE IF IsSome(content)
     THEN h' = [h EXCEPT !["AnalyzeWithAI"] =
                  [Idle EXCEPT !.pc = "setAnalyzing",
                     !.cs = Some([Val(content) EXCEPT !.workflowStatus = "analyzing"])]]
     ELSE h' = [h EXCEPT !["AnalyzeWithAI"] = [Idle EXCEPT !.pc = "done"]]
  /\ UNCHANGED <<content, workflow, coll, env, count, furthest, submitted>>

AnalyzeSetAnalyzing ==
  SetContent("AnalyzeWithAI", "setAnalyzing", "setAnalyzingWorkflow", FALSE)

AnalyzeSetAnalyzingWorkflow ==
  SetWorkflow("AnalyzeWithAI", "setAnalyzingWorkflow", "llm")

\* The chat completion raced against the 45 s timeout, the parse of the
\* answer and the construction of aiAnalysis.
AnalyzeCallLLM ==
  LET me == h["AnalyzeWithAI"]
  IN /\ At("AnalyzeWithAI", "llm")
     /\ \/ \* API error or timeout: rethrown to the handler's catch
           h' = [h EXCEPT !["AnalyzeWithAI"].pc = "catchGet"]
        \/ \E answer \in LLMAnswers :
             h' = [h EXCEPT !["AnalyzeWithAI"].pc = "setAnalyzed",
                     !["AnalyzeWithAI"].ai = Some(AnalysisOf(answer)),
                     !["AnalyzeWithAI"].cs =
                        Some([Val(me.cs) EXCEPT !.aiAnalysis = Some(AnalysisOf(answer)),
                                                !.workflowStatus = "analyzed"])]
     /\ UNCHANGED <<content, workflow, coll, events, env, count, furthest, submitted>>

AnalyzeSetAnalyzed ==
  SetContentAnd("AnalyzeWithAI", "setAnalyzed", "setAnalyzedWorkflow", TRUE,
                "ai_analysis", h["AnalyzeWithAI"].ai)

\* The analysis going on to its notification without the write of 'workflow'.
AnalyzeSkipAnalyzedWorkflow ==
  /\ At("AnalyzeWithAI", "setAnalyzedWorkflow")
  /\ h' = [h EXCEPT !["AnalyzeWithAI"].pc = "push"]
  /\ UNCHANGED <<content, workflow, coll, events, env, count, furthest, submitted>>

AnalyzeSetAnalyzedWorkflow ==
  SetWorkflow("AnalyzeWithAI", "setAnalyzedWorkflow", "push")

AnalyzePush ==
  PushWrapped("AnalyzeWithAI", "push", "emit", "analysis_completed")

AnalyzeEmit ==
  EmitLast("AnalyzeWithAI", "emit", "content.analyzed", h["AnalyzeWithAI"].ai)

\* The choice of the catch block with its test negated.
AnalyzeCatchStatusNegated(cs) ==
  IF IsSome(cs.aiAnalysis) THEN "failed" ELSE "analyzed"

\* The status the catch block gives the item it has read.
AnalyzeCatchStatus(cs) ==
  IF ~IsSome(cs.aiAnalysis) THEN "failed" ELSE "analyzed"

\* catch (error): state.get('content', contentId) and the choice of status.
AnalyzeCatchGet ==
  /\ At("AnalyzeWithAI", "catchGet")
  /\ IF IsSome(content)
     THEN h' = [h EXCEPT !["AnalyzeWithAI"].pc = "catchSetContent",
                  !["AnalyzeWithAI"].cs =
                     Some([Val(content) EXCEPT
                             !.workflowStatus = AnalyzeCatchStatus(Val(content))])]
     ELSE h' = [h EXCEPT !["AnalyzeWithAI"].pc = "done"]
  /\ UNCHANGED <<content, workflow, coll, events, env, count, furthest, submitted>>

AnalyzeCatchSetContent ==
  SetContent("AnalyzeWithAI", "catchSetContent", "catchSetWorkflow", FALSE)

AnalyzeCatchSetWorkflow ==
  SetWorkflow("AnalyzeWithAI", "catchSetWorkflow", "done")

Analyze ==
  \/ AnalyzeStart
  \/ AnalyzeSetAnalyzing
  \/ AnalyzeSetAnalyzingWorkflow
  \/ AnalyzeCallLLM
  \/ AnalyzeSetAnalyzed
  \/ AnalyzeSetAnalyzedWorkflow
  \/ AnalyzePush
  \/ AnalyzeEmit
  \/ AnalyzeCatchGet
  \/ AnalyzeCatchSetContent
  \/ AnalyzeCatchSetWorkflow

(***************************************************************************)
(* GenerateRecommendations, subscribed to content.analyzed.  Its catch     *)
(* block is entered only when a store operation throws, which the store    *)
(* of the model never does.                                                *)
(***************************************************************************)
\* A start of the recommendation stage that appends the new list to the
\* list the item already holds.
RecommendStartAppending ==
  /\ At("GenerateRecommendations", "idle")
  /\ \E e \in BagToSet(events) :
       /\ e.topic = "content.analyzed"
       /\ events' = Deliver(e)
       /\ IF IsSome(content)
          THEN h' = [h EXCEPT !["GenerateRecommendations"] =
                       [Idle EXCEPT !.pc = "setCompleted", !.ai = e.ai,
                          !.cs = Some([Val(content) EXCEPT
                                  !.recommendations =
                                     Some((IF IsSome(Val(content).recommendations)
                                           THEN Val(Val(content).recommendations)
                                           ELSE <<>>)
                                          \o GenerateRecs(Val(e.ai))),
                                  !.workflowStatus = "completed"])]]
          ELSE h' = [h EXCEPT !["GenerateRecommendations"] = [Idle EXCEPT !.pc = "done"]]
  /\ UNCHANGED <<content, workflow, coll, env, count, furthest, submitted>>

RecommendStart ==
  /\ At("GenerateRecommendations", "idle")
  /\ \E e \in BagToSet(events) :
       /\ e.topic = "content.analyzed"
       /\ events' = Deliver(e)
       /\ IF IsSome(content)
          THEN h' = [h EXCEPT !["GenerateRecommendations"] =
                       [Idle EXCEPT !.pc = "setCompleted", !.ai = e.ai,
                          !.cs = Some([Val(content) EXCEPT
                                  !.recommendations = Some(GenerateRecs(Val(e.ai))),
                                  !.workflowStatus = "completed"])]]
          ELSE h' = [h EXCEPT !["GenerateRecommendations"] = [Idle EXCEPT !.pc = "done"]]
  /\ UNCHANGED <<content, workflow, coll, env, count, furthest, submitted>>

RecommendSetCompleted ==
  SetContentAnd("GenerateRecommendations", "setCompleted", "setCompletedWorkflow", TRUE,
                "recommendations", Val(h["GenerateRecommendations"].cs).recommendations)

RecommendSetCompletedWorkflow ==
  SetWorkflow("GenerateRecommendations", "setCompletedWorkflow", "push")

RecommendPush ==
  PushWrapped("GenerateRecommendations", "push", "emit", "recommendations_completed")

RecommendEmit ==
  EmitLast("GenerateRecommendations", "emit", "content.completed", None)

Recommend ==
  \/ RecommendStart
  \/ RecommendSetCompleted
  \/ RecommendSetCompletedWorkflow
  \/ RecommendPush
  \/ RecommendEmit

(***************************************************************************)
(* POST /content/:id/improve (RequestContentImprovement).                  *)
(***************************************************************************)
\* The checks of the request without the guard on a running generation.
ImproveResponseUnguarded(c) ==
  IF ~IsSome(c) THEN 404
  ELSE IF ~IsSome(Val(c).aiAnalysis) THEN 400
  ELSE 202

ImproveResponse(c) ==
  IF ~IsSome(c) THEN 404
  ELSE IF ~IsSome(Val(c).aiAnalysis) THEN 400
  ELSE IF IsSome(Val(c).improvedContent)
          /\ Val(Val(c).improvedContent).status = "generating" THEN 409
  ELSE 202

\* The request, of which at most max are made.
ImproveStartUpTo(max) ==
  /\ At("RequestContentImprovement", "idle")
  /\ count.improve < max
  /\ count' = [count EXCEPT !.improve = @ + 1]
  /\ h' = [h EXCEPT !["RequestContentImprovement"] =
             IF ImproveResponse(content) = 202
             THEN [Idle EXCEPT !.pc = "emit"]
             ELSE [Idle EXCEPT !.pc = "done", !.resp = ImproveResponse(content)]]
  /\ UNCHANGED <<content, workflow, coll, events, env, furthest, submitted>>

ImproveStart == ImproveStartUpTo(MaxImprove)

\* await emit(...) of an API handler: a failure is caught and answered 500.
EmitApi(n, from, topic, success) ==
  /\ At(n, from)
  /\ \E ok \in BOOLEAN :
       /\ events' = IF ok THEN Emit(topic, None) ELSE events
       /\ h' = [h EXCEPT ![n].pc = "done", ![n].emitted = topic,
                         ![n].emitFailed = ~ok,
                         ![n].resp = IF ok THEN success ELSE 500]
  /\ UNCHANGED <<content, workflow, coll, env, count, furthest, submitted>>

ImproveEmit ==
  EmitApi("RequestContentImprovement", "emit", "content.improvement.requested", 202)

Improve ==
  \/ ImproveStart
  \/ ImproveEmit

(***************************************************************************)
(* GenerateImprovedContent, subscribed to content.improvement.requested.   *)
(***************************************************************************)
Improved(cs, improvedBody, status) ==
  [originalBody |-> cs.body, improvedBody |-> improvedBody, status |-> status,
   applied |-> FALSE]

GenerateStart ==
  /\ At("GenerateImprovedContent", "idle")
  /\ \E e \in BagToSet(events) :
       /\ e.topic = "content.improvement.requested"
       /\ events' = Deliver(e)
  /\ IF ~env.apiKey
     THEN h' = [h EXCEPT !["GenerateImprovedContent"] = [Idle EXCEPT !.pc = "catchGet"]]
     ELSE IF IsSome(content) /\ IsSome(Val(content).aiAnalysis)
     THEN h' = [h EXCEPT !["GenerateImprovedContent"] =
                  [Idle EXCEPT !.pc = "setGenerating",
                     !.cs = Some([Val(content) EXCEPT !.improvedContent =
                                    Some(Improved(Val(content), 0, "generating"))])]]
     ELSE h' = [h EXCEPT !["GenerateImprovedContent"] = [Idle EXCEPT !.pc = "done"]]
  /\ UNCHANGED <<content, workflow, coll, env, count, furthest, submitted>>

GenerateSetGenerating ==
  SetContent("GenerateImprovedContent", "setGenerating", "pushStarted", FALSE)

GeneratePushStarted ==
  PushWrapped("GenerateImprovedContent", "pushStarted", "llm", "improvement_started")

\* The chat completion raced against the 50 s timeout.
GenerateCallLLM ==
  LET me == h["GenerateImprovedContent"]
  IN /\ At("GenerateImprovedContent", "llm")
     /\ \/ \* API error or timeout: mark as failed, persist, rethrow
           h' = [h EXCEPT !["GenerateImprovedContent"].pc = "setFailed",
                   !["GenerateImprovedContent"].cs =
                      Some([Val(me.cs) EXCEPT !.improvedContent =
                              Some(Improved(Val(me.cs), 0, "failed"))])]
        \/ \E improvedBody \in ImprovedBodies :
             IF improvedBody = 0
             THEN \* throw new Error('Empty response from AI')
                  h' = [h EXCEPT !["GenerateImprovedContent"].pc = "catchGet"]
             ELSE h' = [h EXCEPT !["GenerateImprovedContent"].pc = "setImproved",
                          !["GenerateImprovedContent"].cs =
                             Some([Val(me.cs) EXCEPT !.improvedContent =
                                     Some(Improved(Val(me.cs), improvedBody, "completed"))])]
     /\ UNCHANGED <<content, workflow, coll, events, env, count, furthest, submitted>>

GenerateSetFailed ==
  SetContent("GenerateImprovedContent", "setFailed", "catchGet", FALSE)

GenerateSetImproved ==
  SetContent("GenerateImprovedContent", "setImproved", "pushCompleted", FALSE)

GeneratePushCompleted ==
  PushWrapped("GenerateImprovedContent", "pushCompleted", "emit", "improvement_completed")

GenerateEmit ==
  EmitLast("GenerateImprovedContent", "emit", "content.improvement.completed", None)

\* catch (error): re-read the item and turn a draft still generating into failed.
GenerateCatchGet ==
  /\ At("GenerateImprovedContent", "catchGet")
  /\ IF /\ IsSome(content)
        /\ IsSome(Val(content).improvedContent)
        /\ Val(Val(content).improvedContent).status = "generating"
     THEN h' = [h EXCEPT !["GenerateImprovedContent"].pc = "catchSet",
                  !["GenerateImprovedContent"].cs =
                     Some([Val(content) EXCEPT !.improvedContent =
                        Some([Val(Val(content).improvedContent) EXCEPT !.status = "failed"])])]
     ELSE h' = [h EXCEPT !["GenerateImprovedContent"].pc = "done"]
  /\ UNCHANGED <<content, workflow, coll, events, env, count, furthest, submitted>>

GenerateCatchSet ==
  SetContent("GenerateImprovedContent", "catchSet", "done", FALSE)

Generate ==
  \/ GenerateStart
  \/ GenerateSetGenerating
  \/ GeneratePushStarted
  \/ GenerateCallLLM
  \/ GenerateSetFailed
  \/ GenerateSetImproved
  \/ GeneratePushCompleted
  \/ GenerateEmit
  \/ GenerateCatchGet
  \/ GenerateCatchSet

(***************************************************************************)
(* POST /content/:id/apply-improvement (ApplyImprovedContent).  The        *)
(* repository holds two steps of this name: one swaps the body and resets  *)
(* the workflow for a re-analysis, the other only swaps the body.          *)
(***************************************************************************)
ApplyResponse(c) ==
  IF ~IsSome(c) THEN 404
  ELSE IF ~IsSome(Val(c).improvedContent) THEN 400
  ELSE IF Val(Val(c).improvedContent).status # "completed" THEN 400
  ELSE IF Val(Val(c).improvedContent).improvedBody = 0 THEN 400
  ELSE 200

\* The re-analysis step's changes to its private copy.
ApplyReanalyze(cs) ==
  [cs EXCEPT !.body = Val(cs.improvedContent).improvedBody,
             !.improvedContent = Some([Val(cs.improvedContent) EXCEPT !.applied = TRUE]),
             !.workflowStatus = "pending",
             !.aiAnalysis = None,
             !.recommendations = None]

\* A body swap that also resets the status.
ApplySimpleResetting(cs) ==
  [cs EXCEPT !.body = Val(cs.improvedContent).improvedBody,
             !.improvedContent = Some([Val(cs.improvedContent) EXCEPT !.applied = TRUE]),
             !.workflowStatus = "pending"]

\* The simple step's changes to its private copy.
ApplySimple(cs) ==
  [cs EXCEPT !.body = Val(cs.improvedContent).improvedBody,
             !.improvedContent = Some([Val(cs.improvedContent) EXCEPT !.applied = TRUE])]

ApplyStart ==
  /\ At("ApplyImprovedContent", "idle")
  /\ count.apply < MaxApply
  /\ count' = [count EXCEPT !.apply = @ + 1]
  /\ h' = [h EXCEPT !["ApplyImprovedContent"] =
             IF ApplyResponse(content) # 200
             THEN [Idle EXCEPT !.pc = "done", !.resp = ApplyResponse(content)]
             ELSE IF env.apply = "reanalyze"
             THEN [Idle EXCEPT !.pc = "setContent",
                               !.cs = Some(ApplyReanalyze(Val(content)))]
             ELSE [Idle EXCEPT !.pc = "setContentSimple",
                               !.cs = Some(ApplySimple(Val(content)))]]
  /\ UNCHANGED <<content, workflow, coll, events, env, furthest, submitted>>

\* The re-analysis step starts the pipeline over: no stage has completed
\* for the new body.
ApplySetContent ==
  /\ At("ApplyImprovedContent", "setContent")
  /\ content' = h["ApplyImprovedContent"].cs
  /\ h' = [h EXCEPT !["ApplyImprovedContent"].pc = "setWorkflow",
                    !["ApplyImprovedContent"].wrote = "pending"]
  /\ furthest' = 0
  /\ UNCHANGED <<workflow, coll, events, env, count, submitted>>

ApplySetWorkflow ==
  SetWorkflow("ApplyImprovedContent", "setWorkflow", "push")

ApplyPush ==
  PushWrapped("ApplyImprovedContent", "push", "emit", "improvement_applied")

ApplyEmit ==
  EmitApi("ApplyImprovedContent", "emit", "content.created", 200)

ApplySetContentSimple ==
  /\ At("ApplyImprovedContent", "setContentSimple")
  /\ content' = h["ApplyImprovedContent"].cs
  /\ h' = [h EXCEPT !["ApplyImprovedContent"].pc = "done",
                    !["ApplyImprovedContent"].wrote =
                       Val(h["ApplyImprovedContent"].cs).workflowStatus,
                    !["ApplyImprovedContent"].resp = 200]
  /\ UNCHANGED <<workflow, coll, events, env, count, furthest, submitted>>

Apply ==
  \/ ApplyStart
  \/ ApplySetContent
  \/ ApplySetWorkflow
  \/ ApplyPush
  \/ ApplyEmit
  \/ ApplySetContentSimple

(***************************************************************************)
(* DELETE /content/:id (DeleteContent).                                    *)
(***************************************************************************)
DeleteStart ==
  /\ At("DeleteContent", "idle")
  /\ count.delete = 0
  /\ count' = [count EXCEPT !.delete = 1]
  /\ h' = [h EXCEPT !["DeleteContent"] =
             IF IsSome(content)
             THEN [Idle EXCEPT !.pc = "deleteContent"]
             ELSE [Idle EXCEPT !.pc = "done", !.resp = 404]]
  /\ UNCHANGED <<content, workflow, coll, events, env, furthest, submitted>>

DeleteDeleteContent ==
  /\ At("DeleteContent", "deleteContent")
  /\ content' = None
  /\ h' = [h EXCEPT !["DeleteContent"].pc = "deleteWorkflow"]
  /\ UNCHANGED <<workflow, coll, events, env, count, furthest, submitted>>

DeleteDeleteWorkflow ==
  /\ At("DeleteContent", "deleteWorkflow")
  /\ workflow' = None
  /\ h' = [h EXCEPT !["DeleteContent"].pc = "done", !["DeleteContent"].resp = 200]
  /\ UNCHANGED <<content, coll, events, env, count, furthest, submitted>>

Delete ==
  \/ DeleteStart
  \/ DeleteDeleteContent
  \/ DeleteDeleteWorkflow

Create ==
  \/ CreateContentStart
  \/ CreateContentSetWorkflow
  \/ CreateContentEmit

Next ==
  \/ Create
  \/ Validate
  \/ Analyze
  \/ Recommend
  \/ Improve
  \/ Generate
  \/ Apply
  \/ \E n \in Handlers : Return(n)

Spec == Init /\ [][Next]_vars

\* The pipeline alone: submission, validation, analysis, recommendation.
PipelineNext ==
  \/ Create
  \/ Validate
  \/ Analyze
  \/ Recommend
  \/ \E n \in Handlers : Return(n)

SpecPipeline == Init /\ [][PipelineNext]_vars

\* The pipeline with a DELETE /content/:id request at any moment.
DeleteNext ==
  \/ Create
  \/ Validate
  \/ Analyze
  \/ Recommend
  \/ Delete
  \/ \E n \in Handlers : Return(n)

SpecDelete == Init /\ [][DeleteNext]_vars

\* The same with the scheduling of the runtime: a queued event is delivered
\* to its subscriber and a handler that has started takes its next step.
\* Requests are made or not.
SpecDeleteFair ==
  /\ SpecDelete
  /\ WF_vars(CreateContentSetWorkflow \/ CreateContentEmit)
  /\ WF_vars(Validate)
  /\ WF_vars(Analyze)
  /\ WF_vars(Recommend)
  /\ WF_vars(DeleteDeleteContent \/ DeleteDeleteWorkflow)
  /\ WF_vars(\E n \in Handlers : Return(n))

(***************************************************************************)
(* The analysis and recommendation rules on texts and on answers in full.  *)
(* The item has been validated and the analysis has stored analyzing; the  *)
(* answer the LLM is going to give is part of the environment.             *)
(***************************************************************************)
RulesInit ==
  \E body \in BodyTexts, answer \in ParsedAnswers :
    LET item == [InitialContent(12, body, "en") EXCEPT !.workflowStatus = "analyzing",
                    !.validationResult = Some([isValid |-> TRUE, errors |-> 0, warnings |-> 1])]
    IN /\ content = Some(item)
       /\ workflow = Some("analyzing")
       /\ coll = [validation |-> item.validationResult, ai_analysis |-> None,
                  recommendations |-> None]
       /\ events = EmptyBag
       /\ h = [n \in Handlers |->
                 IF n = "AnalyzeWithAI"
                 THEN [Idle EXCEPT !.pc = "llm", !.cs = Some(item), !.wrote = "analyzing",
                                   !.wroteWf = "analyzing"]
                 ELSE Idle]
       /\ env = [apiKey |-> TRUE, apply |-> "simple", answer |-> answer]
       /\ count = [create |-> 1, improve |-> 0, apply |-> 0, delete |-> 0]
       /\ furthest = 1
       /\ submitted = Some([body |-> body, language |-> "en"])

\* The answer of the chat completion, JSON.parse with its fallback, and the
\* construction of aiAnalysis, which throws a TypeError on a null
\* analysisData.
AnalyzeParseAndBuild ==
  LET me == h["AnalyzeWithAI"]
      body == Val(me.cs).body
      aiAnalysis == AIAnalysisOf(AnalysisDataOf(env.answer, body), body)
  IN /\ At("AnalyzeWithAI", "llm")
     /\ IF env.answer.parsed = "null"
        THEN h' = [h EXCEPT !["AnalyzeWithAI"].pc = "catchGet"]
        ELSE h' = [h EXCEPT !["AnalyzeWithAI"].pc = "setAnalyzed",
                     !["AnalyzeWithAI"].ai = Some(aiAnalysis),
                     !["AnalyzeWithAI"].cs =
                        Some([Val(me.cs) EXCEPT !.aiAnalysis = Some(aiAnalysis),
                                                !.workflowStatus = "analyzed"])]
     /\ UNCHANGED <<content, workflow, coll, events, env, count, furthest, submitted>>

RulesNext ==
  \/ AnalyzeParseAndBuild
  \/ AnalyzeSetAnalyzed
  \/ AnalyzeSetAnalyzedWorkflow
  \/ AnalyzePush
  \/ AnalyzeEmit
  \/ AnalyzeCatchGet
  \/ AnalyzeCatchSetContent
  \/ AnalyzeCatchSetWorkflow
  \/ Recommend
  \/ \E n \in Handlers : Return(n)

SpecRules == RulesInit /\ [][RulesNext]_vars

(***************************************************************************)
(* A second run of the recommendation stage.  The item has been analysed   *)
(* again and content.analyzed is in flight while the item and the          *)
(* recommendations collection still hold the list of an earlier run, with  *)
(* or without a vote aggregate: the state after a write of a stale copy    *)
(* has followed the re-analysis apply.                                     *)
(***************************************************************************)
Analyses == {AnalysisOf(answer) : answer \in LLMAnswers}

\* The votes aggregate the vote handler puts on a recommendation.
Voted(rec, upvotes, downvotes) ==
  [rec EXCEPT !.votes = Some([upvotes |-> upvotes, downvotes |-> downvotes])]

PriorLists ==
  {None}
  \cup {Some(GenerateRecs(a)) : a \in Analyses}
  \cup {Some([GenerateRecs(a) EXCEPT ![1] = Voted(@, 1, 0)]) : a \in Analyses}

RerunInit ==
  \E a \in Analyses, prior \in PriorLists :
    LET item == [InitialContent(12, 150, "en") EXCEPT !.workflowStatus = "analyzed",
                    !.validationResult = Some(ValidationResultOf(InitialContent(12, 150, "en"))),
                    !.aiAnalysis = Some(a),
                    !.recommendations = prior]
    IN /\ content = Some(item)
       /\ workflow = Some("analyzed")
       /\ coll = [validation |-> item.validationResult, ai_analysis |-> Some(a),
                  recommendations |-> prior]
       /\ events = SetToBag({Event("content.analyzed", Some(a))})
       /\ h = [n \in Handlers |-> Idle]
       /\ env = [apiKey |-> TRUE, apply |-> "reanalyze"]
       /\ count = [create |-> 1, improve |-> 1, apply |-> 1, delete |-> 0]
       /\ furthest = 2
       /\ submitted = Some([body |-> 150, language |-> "en", prior |-> prior])

RerunNext ==
  \/ Recommend
  \/ \E n \in Handlers : Return(n)

SpecRerun == RerunInit /\ [][RerunNext]_vars

(***************************************************************************)
(* Improvement requests on an item at rest: an item left pending, without  *)
(* analysis, or an item the pipeline has completed.                        *)
(***************************************************************************)
CompletedItem(a) ==
  [InitialContent(12, 150, "en") EXCEPT !.workflowStatus = "completed",
     !.validationResult = Some(ValidationResultOf(InitialContent(12, 150, "en"))),
     !.aiAnalysis = Some(a),
     !.recommendations = Some(GenerateRecs(a))]

ItemsAtRest ==
  {InitialContent(12, 150, "en")} \cup {CompletedItem(a) : a \in Analyses}

ImproveInit ==
  \E item \in ItemsAtRest :
    /\ content = Some(item)
    /\ workflow = Some(item.workflowStatus)
    /\ coll = [validation |-> item.validationResult, ai_analysis |-> item.aiAnalysis,
               recommendations |-> item.recommendations]
    /\ events = IF item.workflowStatus = "completed"
                THEN SetToBag({Event("content.completed", None)}) ELSE EmptyBag
    /\ h = [n \in Handlers |-> Idle]
    /\ env \in [apiKey : BOOLEAN, apply : {"simple"}]
    /\ count = [create |-> 1, improve |-> 0, apply |-> 0, delete |-> 0]
    /\ furthest = StageRank(item.workflowStatus)
    /\ submitted = Some([body |-> 150, language |-> "en"])

ImproveStartAgain == ImproveStartUpTo(MaxImproveAgain)

ImproveNext ==
  \/ ImproveStartAgain
  \/ ImproveEmit
  \/ Generate
  \/ \E n \in Handlers : Return(n)

SpecImprove == ImproveInit /\ [][ImproveNext]_vars

\* The same with the scheduling of the runtime: an event queued for the
\* generate handler is delivered, a handler that has started takes its
\* next step, and a request that has passed its checks is answered.
SpecImproveFair ==
  /\ SpecImprove
  /\ WF_vars(Generate)
  /\ WF_vars(ImproveEmit)
  /\ WF_vars(\E n \in Handlers : Return(n))

(***************************************************************************)
(* POST /content/:id/recommendations/:recId/vote (VoteRecommendation).     *)
(* Requests may run side by side.  The 'votes' collection holds, per       *)
(* recommendation, the vote map: the vote of each user, "" for a user      *)
(* without an entry.                                                       *)
(***************************************************************************)
Users == {"u1", "u2"}

VoteRequests == {"VoteRecommendation/1", "VoteRecommendation/2"}

\* The request bodies: the valid ones, one without userId, one whose vote
\* is neither up nor down.
VoteBodies ==
  [userId : Users, vote : {"up", "down"}]
  \cup {[userId |-> "", vote |-> "up"], [userId |-> "u1", vote |-> "sideways"]}

\* The item the votes are cast on, and the recommendation ids asked for:
\* one of the item's list and one that is not in it.
VotedItem == CompletedItem(AnalysisOf(CHOOSE answer \in LLMAnswers : answer.qualityScore = 40))

VoteRecIds == {"review_1", "publish_1"}

EmptyVotes == [u \in Users |-> ""]

\* contentState.recommendations?.find(rec => rec.id === recommendationId):
\* the index of the first match, 0 for undefined.
FindRec(recommendations, recId) ==
  IF ~IsSome(recommendations) THEN 0
  ELSE LET recs == Val(recommendations)
           found == {i \in 1..Len(recs) : recs[i].id = recId}
       IN IF found = {} THEN 0 ELSE CHOOSE i \in found : \A j \in found : i <= j

\* A vote that takes the user's entry back when it repeats it.
CastVoteToggling(votes, userId, vote) ==
  [votes EXCEPT ![userId] = IF @ = vote THEN "" ELSE vote]

\* votes[body.userId] = body.vote
CastVote(votes, userId, vote) == [votes EXCEPT ![userId] = vote]

\* A count of all the entries of the map.
CountEntries(votes, v) == Cardinality({u \in Users : votes[u] # ""})

\* Object.values(votes).filter(v => v === 'up').length, and the same for down.
CountVotes(votes, v) == Cardinality({u \in Users : votes[u] = v})

\* The assignments to recommendation.votes.
RecVotes(votes) ==
  [upvotes |-> CountVotes(votes, "up"), downvotes |-> CountVotes(votes, "down"),
   userVotes |-> votes]

VoteResponse(body, c, recId) ==
  IF body.userId = "" \/ body.vote \notin {"up", "down"} THEN 400
  ELSE IF ~IsSome(c) THEN 404
  ELSE IF FindRec(Val(c).recommendations, recId) = 0 THEN 404
  ELSE 200

VoteIdle == Idle @@ [body |-> None, recId |-> "", votes |-> None]

VoteInit ==
  /\ content \in {None, Some(VotedItem)}
  /\ workflow = IF IsSome(content) THEN Some("completed") ELSE None
  /\ coll = [validation |-> IF IsSome(content) THEN VotedItem.validationResult ELSE None,
             ai_analysis |-> IF IsSome(content) THEN VotedItem.aiAnalysis ELSE None,
             recommendations |-> IF IsSome(content) THEN VotedItem.recommendations ELSE None,
             votes |-> [id \in VoteRecIds |-> None]]
  /\ events = IF IsSome(content) THEN SetToBag({Event("content.completed", None)})
              ELSE EmptyBag
  /\ h = [n \in Handlers \cup VoteRequests |-> IF n \in Handlers THEN Idle ELSE VoteIdle]
  /\ env = [apiKey |-> TRUE, apply |-> "simple"]
  /\ count = [create |-> 1, improve |-> 0, apply |-> 0, delete |-> 0, vote |-> 0]
  /\ furthest = IF IsSome(content) THEN 3 ELSE 0
  /\ submitted = IF IsSome(content) THEN Some([body |-> 150, language |-> "en"]) ELSE None

\* The checks of the request and state.get('content', contentId).
VoteStart(r) ==
  /\ h[r].pc = "idle"
  /\ count.vote < MaxVote
  /\ count' = [count EXCEPT !.vote = @ + 1]
  /\ \E body \in VoteBodies, recId \in VoteRecIds :
       h' = [h EXCEPT ![r] =
               IF VoteResponse(body, content, recId) # 200
               THEN [VoteIdle EXCEPT !.pc = "done", !.body = Some(body), !.recId = recId,
                                     !.resp = VoteResponse(body, content, recId)]
               ELSE [VoteIdle EXCEPT !.pc = "getVotes", !.body = Some(body),
                                     !.recId = recId, !.cs = content]]
  /\ UNCHANGED <<content, workflow, coll, events, env, furthest, submitted>>

\* state.get('votes', voteKey), existingVotes || {}, and the user's entry.
VoteGetVotes(r) ==
  LET existingVotes == coll.votes[h[r].recId]
      votes == IF IsSome(existingVotes) THEN Val(existingVotes) ELSE EmptyVotes
  IN /\ h[r].pc = "getVotes"
     /\ h' = [h EXCEPT ![r].pc = "setVotes",
                       ![r].votes = Some(CastVote(votes, Val(h[r].body).userId,
                                                  Val(h[r].body).vote))]
     /\ UNCHANGED <<content, workflow, coll, events, env, count, furthest, submitted>>

\* A write of the map that puts the user's entry into the map as stored at
\* the moment of the write.
VoteSetVotesMerging(r) ==
  LET cs == Val(h[r].cs)
      i == FindRec(cs.recommendations, h[r].recId)
      recs == Val(cs.recommendations)
      existingVotes == coll.votes[h[r].recId]
      votes == CastVote(IF IsSome(existingVotes) THEN Val(existingVotes) ELSE EmptyVotes,
                        Val(h[r].body).userId, Val(h[r].body).vote)
  IN /\ h[r].pc = "setVotes"
     /\ coll' = [coll EXCEPT !.votes[h[r].recId] = Some(votes)]
     /\ h' = [h EXCEPT ![r].pc = "setContent", ![r].votes = Some(votes),
                       ![r].cs = Some([cs EXCEPT !.recommendations =
                                   Some([recs EXCEPT ![i].votes = Some(RecVotes(votes))])])]
     /\ UNCHANGED <<content, workflow, events, env, count, furthest, submitted>>

\* state.set('votes', voteKey, votes), then the counts and the assignments
\* to the recommendation found in the private copy of the item.
VoteSetVotes(r) ==
  LET cs == Val(h[r].cs)
      i == FindRec(cs.recommendations, h[r].recId)
      recs == Val(cs.recommendations)
  IN /\ h[r].pc = "setVotes"
     /\ coll' = [coll EXCEPT !.votes[h[r].recId] = h[r].votes]
     /\ h' = [h EXCEPT ![r].pc = "setContent",
                       ![r].cs = Some([cs EXCEPT !.recommendations =
                                   Some([recs EXCEPT ![i].votes =
                                           Some(RecVotes(Val(h[r].votes)))])])]
     /\ UNCHANGED <<content, workflow, events, env, count, furthest, submitted>>

\* state.set('content', contentId, contentState)
VoteSetContent(r) ==
  /\ h[r].pc = "setContent"
  /\ content' = h[r].cs
  /\ h' = [h EXCEPT ![r].pc = "push", ![r].wrote = Val(h[r].cs).workflowStatus]
  /\ UNCHANGED <<workflow, coll, events, env, count, furthest, submitted>>

\* streams.contentUpdates.send(...), not wrapped: a failure is answered 500.
VotePush(r) ==
  /\ h[r].pc = "push"
  /\ \E ok \in BOOLEAN :
       h' = [h EXCEPT ![r].pc = IF ok THEN "emit" ELSE "done",
                      ![r].pushed = "vote_updated", ![r].pushFailed = ~ok,
                      ![r].resp = IF ok THEN 0 ELSE 500]
  /\ UNCHANGED <<content, workflow, coll, events, env, count, furthest, submitted>>

\* emit({topic: 'vote.cast', ...}) and the answer.
VoteEmit(r) ==
  /\ h[r].pc = "emit"
  /\ \E ok \in BOOLEAN :
       /\ events' = IF ok THEN Emit("vote.cast", None) ELSE events
       /\ h' = [h EXCEPT ![r].pc = "done", ![r].emitted = "vote.cast",
                         ![r].emitFailed = ~ok,
                         ![r].resp = IF ok THEN 200 ELSE 500]
  /\ UNCHANGED <<content, workflow, coll, env, count, furthest, submitted>>

\* The request has been answered.
VoteReturn(r) ==
  /\ h[r].pc = "done"
  /\ h' = [h EXCEPT ![r] = VoteIdle]
  /\ UNCHANGED <<content, workflow, coll, events, env, count, furthest, submitted>>

VoteNext ==
  \/ \E r \in VoteRequests : VoteStart(r)
  \/ \E r \in VoteRequests : VoteGetVotes(r)
  \/ \E r \in VoteRequests : VoteSetVotes(r)
  \/ \E r \in VoteRequests : VoteSetContent(r)
  \/ \E r \in VoteRequests : VotePush(r)
  \/ \E r \in VoteRequests : VoteEmit(r)
  \/ \E r \in VoteRequests : VoteReturn(r)

SpecVote == VoteInit /\ [][VoteNext]_vars

\* One vote request while improvement requests and the generation of a
\* draft run on the same item.
Voter == "VoteRecommendation/1"

VoteRaceInit ==
  /\ content = Some(VotedItem)
  /\ workflow = Some("completed")
  /\ coll = [validation |-> VotedItem.validationResult,
             ai_analysis |-> VotedItem.aiAnalysis,
             recommendations |-> VotedItem.recommendations,
             votes |-> [id \in VoteRecIds |-> None]]
  /\ events = SetToBag({Event("content.completed", None)})
  /\ h = [n \in Handlers \cup {Voter} |-> IF n \in Handlers THEN Idle ELSE VoteIdle]
  /\ env = [apiKey |-> TRUE, apply |-> "simple"]
  /\ count = [create |-> 1, improve |-> 0, apply |-> 0, delete |-> 0, vote |-> 0]
  /\ furthest = 3
  /\ submitted = Some([body |-> 150, language |-> "en"])

VoteRaceNext ==
  \/ VoteStart(Voter)
  \/ VoteGetVotes(Voter)
  \/ VoteSetVotes(Voter)
  \/ VoteSetContent(Voter)
  \/ VotePush(Voter)
  \/ VoteEmit(Voter)
  \/ VoteReturn(Voter)
  \/ Improve
  \/ Generate
  \/ \E n \in Handlers : Return(n)

SpecVoteRace == VoteRaceInit /\ [][VoteRaceNext]_vars

(***************************************************************************)
(* The DailyProcessing cron step (the retention job).  Times are in days.  *)
(* The store holds the item c1, which requests and events are addressed    *)
(* to, and may hold a second item c2 at rest; the job may run while an     *)
(* apply request and the pipeline it restarts work on c1.                  *)
(***************************************************************************)
STALE_AGE_DAYS == 90

\* Date.now() at the start of the job, and the createdAt of items that are
\* 91 days, 90 days and 89 days old.
Now == 100
CreatedAts == {9, 10, 11}

\* An item is stale when createdAt < staleThreshold.
IsStale(createdAt) == createdAt < Now - STALE_AGE_DAYS

\* The statuses of the inner check that do not include failed.
FinishedStatuses == {"completed", "rejected"}

\* ['completed', 'failed', 'rejected']
DeletableStatuses == {"completed", "failed", "rejected"}

\* One element of the array state.getGroup('content') returns.
Entry(id, item) ==
  [contentId |-> id, workflowStatus |-> item.workflowStatus, createdAt |-> item.createdAt]

Deletable(entry) ==
  IsStale(entry.createdAt) /\ entry.workflowStatus \in DeletableStatuses

\* The loop runs over the items it keeps without an await: what is left of
\* the array when the loop reaches its next delete.
RECURSIVE SkipKept(_)
SkipKept(todo) ==
  IF todo = <<>> THEN <<>>
  ELSE IF Deletable(Head(todo)) THEN todo
  ELSE SkipKept(Tail(todo))

\* The items c1 can be when no handler runs on it: pending (the creation
\* event was not emitted), validated (the validation push failed),
\* rejected, failed, analyzed (content.analyzed was not emitted), completed,
\* and completed with an improved draft ready to be applied.
ValidItem ==
  [InitialContent(12, 150, "en") EXCEPT
     !.validationResult = Some(ValidationResultOf(InitialContent(12, 150, "en")))]

ItemsOfAnyStatus ==
  LET a == AnalysisOf(CHOOSE answer \in LLMAnswers : answer.qualityScore = 40)
  IN { InitialContent(12, 150, "en"),
       [ValidItem EXCEPT !.workflowStatus = "validated"],
       [InitialContent(12, 60, "en") EXCEPT !.workflowStatus = "rejected",
          !.validationResult = Some(ValidationResultOf(InitialContent(12, 60, "en")))],
       [ValidItem EXCEPT !.workflowStatus = "failed"],
       [ValidItem EXCEPT !.workflowStatus = "analyzed", !.aiAnalysis = Some(a)],
       CompletedItem(a),
       [CompletedItem(a) EXCEPT
          !.improvedContent = Some(Improved(CompletedItem(a), 200, "completed"))],
       [CompletedItem(a) EXCEPT
          !.improvedContent = Some(Improved(CompletedItem(a), 80, "completed"))] }

\* The second item, of which only what the job reads is kept.
OtherItems ==
  {None} \cup {Some([workflowStatus |-> "completed", createdAt |-> 9]),
               Some([workflowStatus |-> "analyzing", createdAt |-> 9]),
               Some([workflowStatus |-> "failed", createdAt |-> 11])}

RetentionIdle == Idle @@ [scan |-> <<>>, todo |-> <<>>, deleted |-> <<>>]

RetentionInit ==
  \E item \in ItemsOfAnyStatus, createdAt \in CreatedAts, other \in OtherItems :
    /\ content = Some(item @@ [createdAt |-> createdAt])
    /\ workflow = Some(item.workflowStatus)
    /\ coll = [validation |-> item.validationResult, ai_analysis |-> item.aiAnalysis,
               recommendations |-> item.recommendations,
               c2 |-> [content |-> other,
                       workflow |-> IF IsSome(other) THEN Some(Val(other).workflowStatus)
                                    ELSE None],
               daily_metrics |-> None, daily_processing_last_run |-> None]
    /\ events = EmptyBag
    /\ h = [n \in Handlers \cup {"DailyProcessing"} |->
              IF n \in Handlers THEN Idle ELSE RetentionIdle]
    /\ env \in [apiKey : {TRUE}, apply : {"simple", "reanalyze"}]
    /\ count = [create |-> 1, improve |-> 1, apply |-> 0, delete |-> 0, retention |-> 0]
    /\ furthest = StageRank(item.workflowStatus)
    /\ submitted = Some([body |-> item.body, language |-> "en"])

\* state.getGroup('content'): the items in the store, in the order the
\* store gives them.
Scans ==
  LET e1 == IF IsSome(content) THEN <<Entry("c1", Val(content))>> ELSE <<>>
      e2 == IF IsSome(coll.c2.content) THEN <<Entry("c2", Val(coll.c2.content))>> ELSE <<>>
  IN {e1 \o e2, e2 \o e1}

\* The cron fires: the thresholds, getGroup, and the loop up to its first
\* delete.
RetentionStart ==
  /\ h["DailyProcessing"].pc \in {"idle", "finished"}
  /\ NoneDone
  /\ count.retention < MaxRetention
  /\ count' = [count EXCEPT !.retention = @ + 1]
  /\ \E allContent \in Scans :
       h' = [h EXCEPT !["DailyProcessing"] =
               [RetentionIdle EXCEPT !.scan = allContent, !.todo = SkipKept(allContent),
                  !.pc = IF SkipKept(allContent) = <<>> THEN "setMetrics"
                         ELSE "deleteContent"]]
  /\ UNCHANGED <<content, workflow, coll, events, env, furthest, submitted>>

\* await state.delete('content', content.contentId)
RetentionDeleteContent ==
  LET id == Head(h["DailyProcessing"].todo).contentId
  IN /\ h["DailyProcessing"].pc = "deleteContent"
     /\ NoneDone
     /\ IF id = "c1"
        THEN content' = None /\ coll' = coll
        ELSE content' = content /\ coll' = [coll EXCEPT !.c2.content = None]
     /\ h' = [h EXCEPT !["DailyProcessing"].pc = "deleteWorkflow"]
     /\ UNCHANGED <<workflow, events, env, count, furthest, submitted>>

\* await state.delete('workflow', content.contentId), the push to
\* deletedContentIds, and the loop up to its next delete.
RetentionDeleteWorkflow ==
  LET me == h["DailyProcessing"]
      id == Head(me.todo).contentId
  IN /\ me.pc = "deleteWorkflow"
     /\ NoneDone
     /\ IF id = "c1"
        THEN workflow' = None /\ coll' = coll
        ELSE workflow' = workflow /\ coll' = [coll EXCEPT !.c2.workflow = None]
     /\ h' = [h EXCEPT !["DailyProcessing"].deleted = Append(me.deleted, id),
                       !["DailyProcessing"].todo = SkipKept(Tail(me.todo)),
                       !["DailyProcessing"].pc =
                          IF SkipKept(Tail(me.todo)) = <<>> THEN "setMetrics"
                          ELSE "deleteContent"]
     /\ UNCHANGED <<content, events, env, count, furthest, submitted>>

\* await state.set('system', 'daily_metrics', metrics)
RetentionSetMetrics ==
  LET me == h["DailyProcessing"]
  IN /\ me.pc = "setMetrics"
     /\ NoneDone
     /\ coll' = [coll EXCEPT !.daily_metrics =
                   Some([staleContentCount |-> Len(me.deleted),
                         totalContentProcessed |-> Len(me.scan),
                         deletedContentCount |-> Len(me.deleted),
                         activeContentCount |-> Len(me.scan) - Len(me.deleted)])]
     /\ h' = [h EXCEPT !["DailyProcessing"].pc = "setLastRun"]
     /\ UNCHANGED <<content, workflow, events, env, count, furthest, submitted>>

\* await state.set('system', 'daily_processing_last_run', ...) and the
\* return.
RetentionSetLastRun ==
  LET me == h["DailyProcessing"]
  IN /\ me.pc = "setLastRun"
     /\ NoneDone
     /\ coll' = [coll EXCEPT !.daily_processing_last_run =
                   Some(SubSeq(me.deleted, 1, Min(Len(me.deleted), LastRunIds)))]
     /\ h' = [h EXCEPT !["DailyProcessing"].pc = "finished"]
     /\ UNCHANGED <<content, workflow, events, env, count, furthest, submitted>>

Retention ==
  \/ RetentionStart
  \/ RetentionDeleteContent
  \/ RetentionDeleteWorkflow
  \/ RetentionSetMetrics
  \/ RetentionSetLastRun

RetentionNext ==
  \/ Retention
  \/ Apply
  \/ Validate
  \/ Analyze
  \/ Recommend
  \/ \E n \in Handlers : Return(n)

SpecRetention == RetentionInit /\ [][RetentionNext]_vars

(***************************************************************************)
(* POST /content with request bodies that lack fields.  The request that   *)
(* is going to be made is part of the environment; 0 and "" stand for a    *)
(* field that is absent or empty.                                          *)
(***************************************************************************)
Requests ==
  [title : {0, 12}, body : {0, 60, 150}, author : {"", "ann"}, language : {"", "en", "xx"}]

\* !body.title || !body.body || !body.author || !body.language
MissingFields(req) ==
  req.title = 0 \/ req.body = 0 \/ req.author = "" \/ req.language = ""

CreateInit ==
  /\ content = None
  /\ workflow = None
  /\ coll = [validation |-> None, ai_analysis |-> None, recommendations |-> None]
  /\ events = EmptyBag
  /\ h = [n \in Handlers |-> Idle]
  /\ env \in [apiKey : {TRUE}, apply : {"simple"}, request : Requests]
  /\ count = [create |-> 0, improve |-> 0, apply |-> 0, delete |-> 0]
  /\ furthest = 0
  /\ submitted = None

\* The check of the request body, the construction of the item and
\* state.set('content', contentId, contentState).
CreateContentRequest ==
  /\ At("CreateContent", "idle")
  /\ count.create = 0
  /\ count' = [count EXCEPT !.create = 1]
  /\ IF MissingFields(env.request)
     THEN /\ h' = [h EXCEPT !["CreateContent"] = [Idle EXCEPT !.pc = "done", !.resp = 400]]
          /\ UNCHANGED <<content, furthest, submitted>>
     ELSE /\ content' = Some(InitialContent(env.request.title, env.request.body,
                                            env.request.language)
                             @@ [author |-> env.request.author])
          /\ submitted' = Some([body |-> env.request.body, language |-> env.request.language])
          /\ furthest' = 0
          /\ h' = [h EXCEPT !["CreateContent"] =
                     [Idle EXCEPT !.pc = "setWorkflow", !.wrote = "pending",
                                  !.cs = content']]
  /\ UNCHANGED <<workflow, coll, events, env>>

CreateNext ==
  \/ CreateContentRequest
  \/ CreateContentSetWorkflow
  \/ CreateContentEmit
  \/ Validate
  \/ \E n \in Handlers : Return(n)

SpecCreate == CreateInit /\ [][CreateNext]_vars

(***************************************************************************)
(* GET /content/:id (GetContent), with the pipeline and a DELETE request.  *)
(***************************************************************************)
GetIdle == [pc |-> "idle", resp |-> 0, body |-> None]

GetInit ==
  /\ content = None
  /\ workflow = None
  /\ coll = [validation |-> None, ai_analysis |-> None, recommendations |-> None]
  /\ events = EmptyBag
  /\ h = [n \in Handlers \cup {"GetContent"} |-> IF n \in Handlers THEN Idle ELSE GetIdle]
  /\ env \in [apiKey : {TRUE}, apply : {"simple"}]
  /\ count = [create |-> 0, improve |-> 0, apply |-> 0, delete |-> 0, get |-> 0]
  /\ furthest = 0
  /\ submitted = None

\* state.get('content', contentId) and the answer: 404 without a record,
\* else 200 with the fields of the record.
GetContent ==
  /\ h["GetContent"].pc = "idle"
  /\ count.get < MaxGet
  /\ count' = [count EXCEPT !.get = @ + 1]
  /\ h' = [h EXCEPT !["GetContent"] =
             IF IsSome(content)
             THEN [pc |-> "done", resp |-> 200, body |-> content]
             ELSE [pc |-> "done", resp |-> 404, body |-> None]]
  /\ UNCHANGED <<content, workflow, coll, events, env, furthest, submitted>>

GetReturn ==
  /\ h["GetContent"].pc = "done"
  /\ h' = [h EXCEPT !["GetContent"] = GetIdle]
  /\ UNCHANGED <<content, workflow, coll, events, env, count, furthest, submitted>>

GetNext ==
  \/ Create
  \/ Validate
  \/ Delete
  \/ GetContent
  \/ GetReturn
  \/ \E n \in Handlers : Return(n)

SpecGet == GetInit /\ [][GetNext]_vars

(***************************************************************************)
(* POST /content/:id/comments (AddComment).  The comments are kept in the  *)
(* comments stream, grouped by contentId and keyed by comment id.  The id  *)
(* is made of Date.now(), the clock of the model, and of seven characters  *)
(* of Math.random(), which may come out the same twice.                    *)
(***************************************************************************)
ContentIds == {"c1", "c2"}

Randoms == {"r1", "r2"}

CommentRequests == {"AddComment/1", "AddComment/2"}

\* `comment_${Date.now()}_${Math.random().toString(36).substring(2, 9)}`
CommentId(now, random) == <<"comment", now, random>>

CommentIds == {CommentId(now, random) : now \in 1..MaxClock, random \in Randoms}

\* The request bodies: complete ones, with and without a type, and bodies
\* that lack the text or the user.
CommentBodies ==
  [userId : {"u1"}, userName : {"ann"}, text : {"t1", "t2"}, type : {""}]
  \cup {[userId |-> "u1", userName |-> "ann", text |-> "t1", type |-> "analysis"],
        [userId |-> "u1", userName |-> "ann", text |-> "", type |-> ""],
        [userId |-> "", userName |-> "ann", text |-> "t1", type |-> ""]}

\* The comment object; body.type || 'general'.
CommentOf(id, contentId, body) ==
  [id |-> id, contentId |-> contentId, userId |-> body.userId,
   userName |-> body.userName, text |-> body.text,
   type |-> IF body.type = "" THEN "general" ELSE body.type,
   createdAt |-> id[2], updatedAt |-> id[2]]

CommentIdle == Idle @@ [comment |-> None]

CommentInit ==
  /\ content = None
  /\ workflow = None
  /\ coll = [validation |-> None, ai_analysis |-> None, recommendations |-> None,
             comments |-> [c \in ContentIds |-> [id \in CommentIds |-> None]]]
  /\ events = EmptyBag
  /\ h = [n \in Handlers \cup CommentRequests |->
            IF n \in Handlers THEN Idle ELSE CommentIdle]
  /\ env = [apiKey |-> TRUE, apply |-> "simple"]
  /\ count = [create |-> 0, improve |-> 0, apply |-> 0, delete |-> 0,
              comment |-> 0, now |-> 1]
  /\ furthest = 0
  /\ submitted = None

\* A millisecond passes.
Tick ==
  /\ count.now < MaxClock
  /\ count' = [count EXCEPT !.now = @ + 1]
  /\ UNCHANGED <<content, workflow, coll, events, h, env, furthest, submitted>>

\* The checks of the request, the id and the comment object.
AddCommentStart(r) ==
  /\ h[r].pc = "idle"
  /\ count.comment < MaxComment
  /\ count' = [count EXCEPT !.comment = @ + 1]
  /\ \E contentId \in ContentIds, body \in CommentBodies, random \in Randoms :
       h' = [h EXCEPT ![r] =
               IF body.userId = "" \/ body.userName = "" \/ body.text = ""
               THEN [CommentIdle EXCEPT !.pc = "done", !.resp = 400]
               ELSE [CommentIdle EXCEPT !.pc = "set",
                       !.comment = Some(CommentOf(CommentId(count.now, random),
                                                  contentId, body))]]
  /\ UNCHANGED <<content, workflow, coll, events, env, furthest, submitted>>

\* await streams.comments.set(contentId, commentId, comment)
AddCommentSet(r) ==
  LET comment == Val(h[r].comment)
  IN /\ h[r].pc = "set"
     /\ coll' = [coll EXCEPT !.comments[comment.contentId][comment.id] = Some(comment)]
     /\ h' = [h EXCEPT ![r].pc = "send"]
     /\ UNCHANGED <<content, workflow, events, env, count, furthest, submitted>>

\* await streams.comments.send(...): a failure is answered 500.
AddCommentSend(r) ==
  /\ h[r].pc = "send"
  /\ \E ok \in BOOLEAN :
       h' = [h EXCEPT ![r].pc = IF ok THEN "emit" ELSE "done",
                      ![r].pushed = "comment_added", ![r].pushFailed = ~ok,
                      ![r].resp = IF ok THEN 0 ELSE 500]
  /\ UNCHANGED <<content, workflow, coll, events, env, count, furthest, submitted>>

\* await emit({topic: 'comment.added', ...}) and the answer.
AddCommentEmit(r) ==
  /\ h[r].pc = "emit"
  /\ \E ok \in BOOLEAN :
       /\ events' = IF ok THEN Emit("comment.added", None) ELSE events
       /\ h' = [h EXCEPT ![r].pc = "done", ![r].emitted = "comment.added",
                         ![r].emitFailed = ~ok,
                         ![r].resp = IF ok THEN 201 ELSE 500]
  /\ UNCHANGED <<content, workflow, coll, env, count, furthest, submitted>>

AddCommentReturn(r) ==
  /\ h[r].pc = "done"
  /\ h' = [h EXCEPT ![r] = CommentIdle]
  /\ UNCHANGED <<content, workflow, coll, events, env, count, furthest, submitted>>

CommentNext ==
  \/ Tick
  \/ \E r \in CommentRequests : AddCommentStart(r)
  \/ \E r \in CommentRequests : AddCommentSet(r)
  \/ \E r \in CommentRequests : AddCommentSend(r)
  \/ \E r \in CommentRequests : AddCommentEmit(r)
  \/ \E r \in CommentRequests : AddCommentReturn(r)

SpecComment == CommentInit /\ [][CommentNext]_vars

(***************************************************************************)
(* fetchWithRetry of the frontend's retry utility: one call.  env holds    *)
(* the options of the call, h the loop variable, lastError and what the    *)
(* call ended with, count the calls of fetchWithTimeout made so far.       *)
(***************************************************************************)
\* retryableStatuses of DEFAULT_OPTIONS, and the sets a caller may pass.
DefaultRetryableStatuses == {408, 429, 500, 502, 503, 504}

RetryableStatusSets == {DefaultRetryableStatuses, {429}, {200, 503}}

\* The statuses of the responses the server gives.
ResponseStatuses == {200, 404, 429, 503}

\* response.ok
Ok(status) == status >= 200 /\ status <= 299

\* What a thrown value is: its class, its name, its message, and the status
\* of a FetchError.
Thrown(class, name, message, status) ==
  [class |-> class, name |-> name, message |-> message, status |-> status]

\* The values fetchWithTimeout throws: the abort of the timeout, a network
\* failure, another TypeError, another Error, a value that is no Error.
AbortError == Thrown("Error", "AbortError", "This operation was aborted", 0)
NetworkError == Thrown("TypeError", "TypeError", "fetch failed", 0)
FetchFailures ==
  {AbortError, NetworkError,
   Thrown("TypeError", "TypeError", "Invalid URL", 0),
   Thrown("Error", "Error", "boom", 0),
   Thrown("string", "", "boom", 0)}

\* new FetchError(`HTTP ${response.status}: ...`, response.status, ...)
FetchError(status) == Thrown("FetchError", "FetchError", "HTTP", status)

\* error instanceof Error
InstanceOfError(error) == error.class \in {"Error", "TypeError", "FetchError"}

\* error.message.includes('fetch')
IncludesFetch(message) == message \in {"fetch failed", "Failed to fetch"}

\* A test that takes every thrown value for retryable.
IsAlwaysRetryable(error, retryableStatuses) == TRUE

IsRetryableError(error, retryableStatuses) ==
  IF InstanceOfError(error) /\ error.name = "AbortError" THEN TRUE
  ELSE IF error.class = "TypeError" /\ IncludesFetch(error.message) THEN TRUE
  ELSE IF error.class = "FetchError" THEN error.status \in retryableStatuses
  ELSE FALSE

\* The assignment to lastError in the catch block.
LastErrorOf(error) ==
  IF InstanceOfError(error) /\ error.name = "AbortError"
  THEN Thrown("Error", "Error", "Request timeout - server took too long to respond", 0)
  ELSE IF InstanceOfError(error) THEN error
  ELSE Thrown("Error", "Error", "Unknown fetch error", 0)

\* What one fetchWithTimeout ends with: a response or a thrown value.
Response(status) == [kind |-> "response", status |-> status, error |-> None]
Failure(error) == [kind |-> "failure", status |-> 0, error |-> Some(error)]
Outcomes ==
  {Response(status) : status \in ResponseStatuses}
  \cup {Failure(error) : error \in FetchFailures}

FetchInit ==
  /\ content = None
  /\ workflow = None
  /\ coll = [validation |-> None, ai_analysis |-> None, recommendations |-> None]
  /\ events = EmptyBag
  /\ env \in [maxRetries : 0..MaxMaxRetries, retryableStatuses : RetryableStatusSets]
  /\ h = [pc |-> "loop", attempt |-> 0, lastError |-> None, last |-> None,
          result |-> None]
  /\ count = [fetch |-> 0]
  /\ furthest = 0
  /\ submitted = None

\* The catch block, with the thrown value error: the call throws lastError,
\* or goes on to the sleep before the next attempt.
FetchCatch(outcome, error) ==
  h' = [h EXCEPT
          !.last = Some(outcome),
          !.lastError = Some(LastErrorOf(error)),
          !.pc = IF ~IsRetryableError(error, env.retryableStatuses) THEN "thrown"
                 ELSE IF h.attempt = env.maxRetries THEN "thrown"
                 ELSE "sleep",
          !.result = IF IsRetryableError(error, env.retryableStatuses)
                        /\ h.attempt # env.maxRetries
                     THEN None
                     ELSE Some(LastErrorOf(error))]

\* One turn of the for loop up to its next await: the test of the loop, the
\* call of fetchWithTimeout and what follows from its outcome; after the
\* loop, the final throw.
FetchLoop ==
  /\ h.pc = "loop"
  /\ IF h.attempt <= env.maxRetries
     THEN /\ count' = [count EXCEPT !.fetch = @ + 1]
          /\ \E outcome \in Outcomes :
               IF outcome.kind = "response"
               THEN IF ~Ok(outcome.status) /\ outcome.status \in env.retryableStatuses
                    THEN FetchCatch(outcome, FetchError(outcome.status))
                    ELSE h' = [h EXCEPT !.last = Some(outcome), !.pc = "returned",
                                        !.result = Some(outcome)]
               ELSE FetchCatch(outcome, Val(outcome.error))
     ELSE /\ count' = count
          /\ h' = [h EXCEPT !.pc = "thrown",
                     !.result = IF IsSome(h.lastError) THEN h.lastError
                                ELSE Some(Thrown("Error", "Error",
                                                 "Fetch failed after retries", 0))]
  /\ UNCHANGED <<content, workflow, coll, events, env, furthest, submitted>>

\* await sleep(delay), and attempt++
FetchSleep ==
  /\ h.pc = "sleep"
  /\ h' = [h EXCEPT !.pc = "loop", !.attempt = @ + 1]
  /\ UNCHANGED <<content, workflow, coll, events, env, count, furthest, submitted>>

FetchNext ==
  \/ FetchLoop
  \/ FetchSleep

SpecFetch == FetchInit /\ [][FetchNext]_vars

\* The call is not suspended forever: every fetchWithTimeout ends (with a
\* response, an error, or the abort of its timeout) and every sleep ends.
SpecFetchFair == SpecFetch /\ WF_vars(FetchNext)

(***************************************************************************)
(* MotiaStreamClient of the frontend: one client.  h holds the fields of   *)
(* the client (ws is the index of its socket in coll, 0 for null), the     *)
(* number of pending setTimeout callbacks, and whether the last call of    *)
(* the user was disconnect(); coll holds the WebSockets created so far,    *)
(* each with its readyState and whether it has ever been open.  The        *)
(* handlers of a socket stay attached when the client drops the socket.    *)
(***************************************************************************)
maxReconnectAttempts == 5

Socket(readyState, opened) == [readyState |-> readyState, opened |-> opened]

StreamInit ==
  /\ content = None
  /\ workflow = None
  /\ coll = <<>>
  /\ events = EmptyBag
  /\ env = [streamName |-> "contentUpdates"]
  /\ h = [ws |-> 0, reconnectAttempts |-> 0, isConnecting |-> FALSE, timers |-> 0,
          disconnected |-> FALSE]
  /\ count = [calls |-> 0]
  /\ furthest = 0
  /\ submitted = None

\* this.ws?.readyState === WebSocket.OPEN
WsOpen == h.ws # 0 /\ coll[h.ws].readyState = "OPEN"

\* connect() on the client c, giving the client and the sockets after it:
\* nothing if open or connecting, else new WebSocket(url), which may throw.
Connected(c, created) ==
  IF WsOpen \/ c.isConnecting THEN <<c, coll>>
  ELSE IF created
  THEN <<[c EXCEPT !.isConnecting = TRUE, !.ws = Len(coll) + 1],
         Append(coll, Socket("CONNECTING", FALSE))>>
  ELSE <<[c EXCEPT !.isConnecting = FALSE], coll>>

\* The call creates a socket within the bound on sockets.
Connect(c) ==
  \E created \in BOOLEAN :
    /\ Len(Connected(c, created)[2]) <= MaxSockets
    /\ h' = Connected(c, created)[1]
    /\ coll' = Connected(c, created)[2]

\* The user of the client calls connect().
UserConnect ==
  /\ count.calls < MaxCalls
  /\ count' = [count EXCEPT !.calls = @ + 1]
  /\ Connect([h EXCEPT !.disconnected = FALSE])
  /\ UNCHANGED <<content, workflow, events, env, furthest, submitted>>

\* The user calls subscribe(eventType, callback): connect() unless open.
UserSubscribe ==
  /\ count.calls < MaxCalls
  /\ count' = [count EXCEPT !.calls = @ + 1]
  /\ IF ~WsOpen
     THEN Connect([h EXCEPT !.disconnected = FALSE])
     ELSE h' = [h EXCEPT !.disconnected = FALSE] /\ coll' = coll
  /\ UNCHANGED <<content, workflow, events, env, furthest, submitted>>

\* The user calls disconnect(): ws.close() starts the closing handshake of
\* a socket that is connecting or open; its close event comes later.
UserDisconnect ==
  /\ count.calls < MaxCalls
  /\ count' = [count EXCEPT !.calls = @ + 1]
  /\ coll' = IF h.ws # 0 /\ coll[h.ws].readyState \in {"CONNECTING", "OPEN"}
             THEN [coll EXCEPT ![h.ws].readyState = "CLOSING"]
             ELSE coll
  /\ h' = [h EXCEPT !.ws = 0, !.reconnectAttempts = 0, !.disconnected = TRUE]
  /\ UNCHANGED <<content, workflow, events, env, furthest, submitted>>

\* ws.onopen of socket i
SocketOpen(i) ==
  /\ coll[i].readyState = "CONNECTING"
  /\ coll' = [coll EXCEPT ![i] = Socket("OPEN", TRUE)]
  /\ h' = [h EXCEPT !.isConnecting = FALSE, !.reconnectAttempts = 0]
  /\ UNCHANGED <<content, workflow, events, env, count, furthest, submitted>>

\* attemptReconnect() on the client c
AttemptReconnect(c) ==
  IF c.reconnectAttempts >= maxReconnectAttempts THEN c
  ELSE [c EXCEPT !.reconnectAttempts = @ + 1, !.timers = @ + 1]

\* ws.onclose on the client c
OnClose(c) ==
  IF c.reconnectAttempts = 0
  THEN AttemptReconnect([c EXCEPT !.isConnecting = FALSE])
  ELSE [c EXCEPT !.isConnecting = FALSE]

\* Socket i closes: the connection could not be established, the server or
\* the network ended it, or the closing handshake is over.  ws.onerror, if
\* the connection failed, and ws.onclose run.
SocketClose(i) ==
  /\ coll[i].readyState \in {"CONNECTING", "OPEN", "CLOSING"}
  /\ coll' = [coll EXCEPT ![i].readyState = "CLOSED"]
  /\ h' = OnClose(h)
  /\ UNCHANGED <<content, workflow, events, env, count, furthest, submitted>>

\* The callback of setTimeout in attemptReconnect runs connect().
TimerFires ==
  /\ h.timers > 0
  /\ Connect([h EXCEPT !.timers = @ - 1])
  /\ UNCHANGED <<content, workflow, events, env, count, furthest, submitted>>

StreamNext ==
  \/ UserConnect
  \/ UserSubscribe
  \/ UserDisconnect
  \/ \E i \in DOMAIN coll : SocketOpen(i)
  \/ \E i \in DOMAIN coll : SocketClose(i)
  \/ TimerFires

SpecStream == StreamInit /\ [][StreamNext]_vars

(***************************************************************************)
(* Claims.                                                                 *)
(***************************************************************************)
StoredStatus == Val(content).workflowStatus

\* The furthest completed stage a stored status stands for.
StageOfStatus(status) ==
  CASE status \in {"validated", "analyzing", "failed"} -> 1
    [] status = "analyzed" -> 2
    [] status = "completed" -> 3
    [] OTHER -> 0

\* C1: the stored workflowStatus of an item always stands for the furthest
\* pipeline stage (validated, analyzed, completed) whose status write has
\* been made for the item, whatever pushes and emissions fail.
C1_StatusIsFurthestStage ==
  IsSome(content) => StageOfStatus(StoredStatus) = furthest

Terminal == {"completed", "failed", "rejected"}

StageHandlers == {"ValidateContent", "AnalyzeWithAI", "GenerateRecommendations"}

StageResult(n) ==
  CASE n = "ValidateContent" -> "validated"
    [] n = "AnalyzeWithAI" -> "analyzed"
    [] OTHER -> "completed"

\* No handler is running and no event waits for a subscriber.
Quiescent ==
  /\ \A n \in Handlers : h[n].pc = "idle"
  /\ \A e \in BagToSet(events) : e.topic \notin Subscribed

\* C2: in every stage handler the stage's resulting status has been written
\* to 'content' and to 'workflow' before the handler pushes its notification
\* and before it emits its event.
C2_WriteBeforeNotify ==
  \A n \in StageHandlers :
    /\ (\/ h[n].pushed # ""
        \/ h[n].emitted \in {"content.validated", "content.analyzed", "content.completed"})
         => (h[n].wrote = StageResult(n) /\ h[n].wroteWf = StageResult(n))
    /\ h[n].emitted = "content.rejected"
         => (h[n].wrote = "rejected" /\ h[n].wroteWf = "rejected")

\* The recommendation stage has pushed (the push failed) and emitted.
C2_Witness ==
  /\ h["GenerateRecommendations"].emitted = "content.completed"
  /\ h["GenerateRecommendations"].pushFailed

\* The success answer of the API handlers that write the item.
ApiSuccess(n) == IF n = "CreateContent" THEN 201 ELSE 200

\* C3: a push or emission that fails after a handler's write of the item is
\* swallowed: the caller gets the answer it would get had it succeeded.
C3_SideEffectFailureSwallowed ==
  \A n \in {"CreateContent", "ApplyImprovedContent"} :
    (/\ h[n].pc = "done"
     /\ h[n].wrote # ""
     /\ (h[n].pushFailed \/ h[n].emitFailed))
      => h[n].resp = ApiSuccess(n)

\* What the finished validation run decided: its private copy holds the item
\* as read, with the validation result and the status the run gave it.
ValidateDone ==
  h["ValidateContent"].pc = "done" /\ IsSome(h["ValidateContent"].cs)

ValidatedCopy == Val(h["ValidateContent"].cs)

C5_UnsupportedLanguageFails ==
  (ValidateDone /\ ValidatedCopy.language \notin SUPPORTED_LANGUAGES) =>
     /\ ~Val(ValidatedCopy.validationResult).isValid
     /\ h["ValidateContent"].wrote = "rejected"

\* C5 amended: a language code whose lower-cased form is not one of the 6
\* codes of the allow-list fails validation whatever the body length.
C5_UnsupportedLowerCasedLanguageFails ==
  (ValidateDone /\ ToLowerCase(ValidatedCopy.language) \notin SUPPORTED_LANGUAGES) =>
     /\ ~Val(ValidatedCopy.validationResult).isValid
     /\ h["ValidateContent"].wrote = "rejected"

\* Validation has rejected an item with a long enough body for its language.
C5_Witness ==
  /\ ValidateDone
  /\ ValidatedCopy.language = "xx"
  /\ ValidatedCopy.body >= 100
  /\ Val(ValidatedCopy.validationResult).errors = 1
  /\ h["ValidateContent"].wrote = "rejected"

\* C6: a validation run on an existing item ends rejected with a rejection
\* event if it found an error and validated with a validation-passed event
\* if it found none; it never sets a status without emitting its event.
C6_ExactlyOneOutcome ==
  ValidateDone =>
    IF Val(ValidatedCopy.validationResult).errors > 0
    THEN /\ h["ValidateContent"].wrote = "rejected"
         /\ h["ValidateContent"].emitted = "content.rejected"
    ELSE /\ h["ValidateContent"].wrote = "validated"
         /\ h["ValidateContent"].emitted = "content.validated"

\* C7: once the stored status of an item is completed, failed or rejected it
\* never changes while the item exists.
C7_TerminalIsFinal ==
  [][(IsSome(content) /\ IsSome(content') /\ StoredStatus \in Terminal)
       => Val(content').workflowStatus = StoredStatus]_vars

\* The place of a status in the order of the pipeline; the three terminal
\* statuses end it.
StatusOrder(status) ==
  CASE status = "pending" -> 0
    [] status = "validated" -> 1
    [] status = "analyzing" -> 2
    [] status = "analyzed" -> 3
    [] OTHER -> 4

\* C8: the statuses of an item occur in the order pending, validated,
\* analyzing, analyzed, completed and never move backwards.
C8_StatusNeverBackwards ==
  [][(IsSome(content) /\ IsSome(content'))
       => StatusOrder(Val(content').workflowStatus) >= StatusOrder(StoredStatus)]_vars

\* C9: when two handlers have worked on the item, the stored record holds the
\* effect of both: once the recommendation stage and the improvement
\* generation have both finished (their completion events are emitted) and
\* no improvement was applied, the record is completed, has its
\* recommendations and has the completed draft.
C9_NoLostUpdate ==
  (/\ BagIn(Event("content.completed", None), events)
   /\ BagIn(Event("content.improvement.completed", None), events)
   /\ count.apply = 0
   /\ IsSome(content))
    => /\ StoredStatus = "completed"
       /\ IsSome(Val(content).recommendations)
       /\ IsSome(Val(content).improvedContent)
       /\ Val(Val(content).improvedContent).status = "completed"

\* C10: no workflow gets stuck: when nothing is running and no event is in
\* flight, a stored item is completed, failed or rejected.
C10_NoStuckWorkflow ==
  (Quiescent /\ IsSome(content)) => StoredStatus \in Terminal

C12_MissingItemSilentAbort ==
  [][(/\ h'["AnalyzeWithAI"] # h["AnalyzeWithAI"]
      /\ h'["AnalyzeWithAI"].pc # "idle"
      /\ h'["AnalyzeWithAI"].cs = None)
       => /\ content' = content
          /\ workflow' = workflow
          /\ coll' = coll
          /\ events' \sqsubseteq events
          /\ h'["AnalyzeWithAI"].pushed = ""
          /\ h'["AnalyzeWithAI"].emitted = ""
          /\ h'["AnalyzeWithAI"].wrote = ""
          /\ h'["AnalyzeWithAI"].wroteWf = ""]_vars

\* The analysis was triggered for an item deleted in the meantime and has
\* ended without finding it.
C12_Witness ==
  /\ h["AnalyzeWithAI"].pc = "done"
  /\ h["AnalyzeWithAI"].cs = None
  /\ content = None
  /\ count.delete = 1

\* The analysis stage has ended: its run is over or has handed over.
AnalysisEnded ==
  /\ h["AnalyzeWithAI"].pc \in {"idle", "done"}
  /\ IsSome(content)
  /\ StoredStatus # "analyzing"

\* C13: for every LLM response that parses as JSON the analysis stage stores
\* an analysis that reflects the response: a numeric qualityScore or
\* readabilityScore clamped into [0,100] and the other well-typed fields as
\* given; no stored analysis has a score outside [0,100].
C13_ParsedResponseStoredClamped ==
  /\ IsSome(coll.ai_analysis) =>
        /\ Val(coll.ai_analysis).qualityScore \in 0..100
        /\ Val(coll.ai_analysis).readabilityScore \in 0..100
  /\ (AnalysisEnded /\ env.answer.parsed # "error") =>
        /\ IsSome(coll.ai_analysis)
        /\ IsSome(env.answer.qualityScore) =>
             Val(coll.ai_analysis).qualityScore = Clamp(Val(env.answer.qualityScore))
        /\ IsSome(env.answer.readabilityScore) =>
             Val(coll.ai_analysis).readabilityScore = Clamp(Val(env.answer.readabilityScore))
        /\ IsSome(env.answer.topics) =>
             Val(coll.ai_analysis).topics = Val(env.answer.topics)
        /\ IsSome(env.answer.wordCount) =>
             Val(coll.ai_analysis).wordCount = Val(env.answer.wordCount)
        /\ IsSome(env.answer.weaknesses) =>
             Val(coll.ai_analysis).weaknesses = Val(env.answer.weaknesses)

\* The pieces of a text between its maximal runs of whitespace.
RECURSIVE PiecesOf(_)
PiecesOf(text) ==
  LET spaces == {i \in 1..Len(text) : text[i] = " "}
  IN IF spaces = {} THEN <<text>>
     ELSE LET first == CHOOSE i \in spaces : \A j \in spaces : i <= j
              rest == {j \in (first + 1)..Len(text) : text[j] # " "}
              next == IF rest = {} THEN Len(text) + 1
                      ELSE CHOOSE j \in rest : \A k \in rest : j <= k
          IN <<SubSeq(text, 1, first - 1)>> \o PiecesOf(SubSeq(text, next, Len(text)))

\* The first n characters of a text.
FirstChars(text, n) == [i \in 1..(IF Len(text) < n THEN Len(text) ELSE n) |-> text[i]]

\* C14: when the LLM response is not valid JSON the analysis stage does not
\* fail: it stores the fallback analysis (neutral sentiment, scores 50, word
\* count = number of whitespace-separated pieces of the body, summary = first
\* 200 characters of the body followed by "...") and the status is analyzed
\* or, after the recommendation stage, completed, never failed.
C14_MalformedResponseFallback ==
  (AnalysisEnded /\ env.answer.parsed = "error") =>
     /\ StoredStatus \in {"analyzed", "completed"}
     /\ IsSome(coll.ai_analysis)
     /\ Val(content).aiAnalysis = coll.ai_analysis
     /\ LET a == Val(coll.ai_analysis)
            body == Val(submitted).body
        IN /\ a.sentiment = "neutral"
           /\ a.readabilityScore = 50
           /\ a.qualityScore = 50
           /\ a.topics = 0 /\ a.strengths = 0 /\ a.weaknesses = 0
           /\ a.wordCount = Len(PiecesOf(body))
           /\ a.summary = FirstChars(body, 200) \o <<".", ".", ".">>

\* The fallback analysis of a body that starts with whitespace is stored:
\* the empty piece before the whitespace is counted.
C14_Witness ==
  /\ AnalysisEnded
  /\ env.answer.parsed = "error"
  /\ IsSome(coll.ai_analysis)
  /\ StoredStatus = "analyzed"
  /\ Val(submitted).body[1] = " "
  /\ Val(coll.ai_analysis).wordCount = 4

\* The recommendation stage has stored its list for the stored analysis.
RecommendationsStored ==
  /\ IsSome(content)
  /\ StoredStatus = "completed"
  /\ IsSome(Val(content).recommendations)
  /\ IsSome(Val(content).aiAnalysis)

StoredRecs == Val(Val(content).recommendations)

StoredAnalysis == Val(Val(content).aiAnalysis)

\* C15: the recommendation list of the recommendation stage holds exactly
\* one recommendation of type publish or review, as its first entry; all
\* other entries are of type improve or optimize.
C15_ExactlyOnePublishOrReview ==
  /\ RecommendationsStored =>
        /\ Len(StoredRecs) >= 1
        /\ StoredRecs[1].type \in {"publish", "review"}
        /\ \A i \in 2..Len(StoredRecs) : StoredRecs[i].type \in {"improve", "optimize"}
        /\ Cardinality({i \in 1..Len(StoredRecs) :
                          StoredRecs[i].type \in {"publish", "review"}}) = 1
  /\ IsSome(coll.recommendations) =>
        Cardinality({i \in 1..Len(Val(coll.recommendations)) :
                       Val(coll.recommendations)[i].type \in {"publish", "review"}}) = 1

\* A stored list with a review recommendation followed by three others.
C15_Witness ==
  /\ RecommendationsStored
  /\ Len(StoredRecs) = 4
  /\ StoredRecs[1].type = "review"

\* C16 as stated: the first recommendation is publish "Ready to Publish",
\* high, exactly when qualityScore >= 80 and sentiment is positive; publish
\* "Publish with Minor Edits", medium, exactly when qualityScore is in
\* [60,80); review, high, exactly when qualityScore < 60.
C16_RuleTable ==
  RecommendationsStored =>
    LET r == StoredRecs[1]
        q == StoredAnalysis.qualityScore
    IN /\ (r.type = "publish" /\ r.title = "Ready to Publish" /\ r.priority = "high")
            <=> (q >= 80 /\ StoredAnalysis.sentiment = "positive")
       /\ (r.type = "publish" /\ r.title = "Publish with Minor Edits" /\ r.priority = "medium")
            <=> (q >= 60 /\ q < 80)
       /\ (r.type = "review" /\ r.priority = "high") <=> q < 60

\* C16 amended: "Publish with Minor Edits", medium, exactly when qualityScore
\* >= 60 and not (qualityScore >= 80 and sentiment positive); the other two
\* rows as stated.
C16_RuleTableElseBranch ==
  RecommendationsStored =>
    LET r == StoredRecs[1]
        q == StoredAnalysis.qualityScore
        ready == q >= 80 /\ StoredAnalysis.sentiment = "positive"
    IN /\ (r.type = "publish" /\ r.title = "Ready to Publish" /\ r.priority = "high")
            <=> ready
       /\ (r.type = "publish" /\ r.title = "Publish with Minor Edits" /\ r.priority = "medium")
            <=> (q >= 60 /\ ~ready)
       /\ (r.type = "review" /\ r.priority = "high") <=> q < 60

\* An analysis with a quality score of at least 80 and a sentiment that is
\* not positive has got "Publish with Minor Edits".
C16_Witness ==
  /\ RecommendationsStored
  /\ StoredAnalysis.qualityScore >= 80
  /\ StoredAnalysis.sentiment # "positive"
  /\ StoredRecs[1].title = "Publish with Minor Edits"

\* The recommendation stage has written its list.
RecommendWritten ==
  /\ h["GenerateRecommendations"].pc \in {"setCompletedWorkflow", "push", "emit", "done"}
  /\ IsSome(h["GenerateRecommendations"].cs)

\* C17: a run of the recommendation stage replaces the stored list
\* wholesale: its write leaves, on the item and in the recommendations
\* collection, the newly generated list, whose entries carry no vote
\* aggregate and none of which is carried over.
C17_ListReplacedWholesale ==
  [][(/\ h["GenerateRecommendations"].pc = "setCompleted"
      /\ h'["GenerateRecommendations"].pc = "setCompletedWorkflow")
       => LET recs == Val(Val(content').recommendations)
          IN /\ IsSome(Val(content').recommendations)
             /\ coll'.recommendations = Val(content').recommendations
             /\ recs = GenerateRecs(Val(h["GenerateRecommendations"].ai))
             /\ Len(recs) <= 4
             /\ \A i \in 1..Len(recs) : recs[i].votes = None
             /\ \A i, j \in 1..Len(recs) : recs[i].id = recs[j].id => i = j]_vars

\* The stage has replaced a list of another length that held a vote
\* aggregate.
C17_Witness ==
  /\ RecommendWritten
  /\ IsSome(Val(submitted).prior)
  /\ Val(Val(submitted).prior)[1].votes # None
  /\ Len(Val(Val(submitted).prior)) > Len(StoredRecs)

\* The improve request reads the item and runs its checks.
ImproveChecks ==
  /\ h["RequestContentImprovement"].pc = "idle"
  /\ h'["RequestContentImprovement"].pc # "idle"
  /\ IsSome(content)

ImproveRejected(status) ==
  /\ h'["RequestContentImprovement"].pc = "done"
  /\ h'["RequestContentImprovement"].resp = status
  /\ h'["RequestContentImprovement"].emitted = ""
  /\ events' = events

ImproveChecked ==
  ImproveChecks =>
    IF ~IsSome(Val(content).aiAnalysis) THEN ImproveRejected(400)
    ELSE IF /\ IsSome(Val(content).improvedContent)
            /\ Val(Val(content).improvedContent).status = "generating"
    THEN ImproveRejected(409)
    ELSE h'["RequestContentImprovement"].pc = "emit"

ImproveAnswers ==
  /\ h["RequestContentImprovement"].pc = "emit"
  /\ h'["RequestContentImprovement"].pc = "done"

ImproveAccepted ==
  /\ h'["RequestContentImprovement"].resp = 202
  /\ events' = events (+) SetToBag({Event("content.improvement.requested", None)})

\* C18 as stated: for an existing item POST /content/:id/improve answers 400
\* and emits nothing without aiAnalysis, answers 409 and emits nothing while
\* improvedContent.status is generating, and otherwise emits exactly one
\* generation-requested event and answers 202.
C18_ImproveAnswers ==
  [][ImproveChecked /\ (ImproveAnswers => ImproveAccepted)]_vars

\* C18 amended: as stated, except that when the emission fails the request
\* is answered 500 and no event is emitted.
C18_ImproveAnswersOrEmitFails ==
  [][/\ ImproveChecked
     /\ ImproveAnswers =>
          \/ ImproveAccepted
          \/ /\ h'["RequestContentImprovement"].resp = 500
             /\ h'["RequestContentImprovement"].emitFailed
             /\ events' = events]_vars

\* A second request has been answered 409 while the generation the first
\* one started is running.
C18_Witness ==
  /\ h["RequestContentImprovement"].pc = "done"
  /\ h["RequestContentImprovement"].resp = 409
  /\ h["GenerateImprovedContent"].pc = "llm"
  /\ count.improve = 2

\* The generate handler has run on an item with an analysis and has ended.
GenerateEnded ==
  /\ h["GenerateImprovedContent"].pc = "done"
  /\ IsSome(h["GenerateImprovedContent"].cs)
  /\ IsSome(content)

\* It ended by its last statement, the emission of the completion event.
GenerateSucceeded == h["GenerateImprovedContent"].emitted = "content.improvement.completed"

StoredDraft == Val(Val(content).improvedContent)

\* C19: when the generate handler ends after an LLM API error, a timeout or
\* an empty response, the stored improvedContent.status is failed; when it
\* ends in success, the stored improvedContent.status is completed and
\* improvedBody is not empty.
C19_DraftStatusAtEnd ==
  GenerateEnded =>
    /\ IsSome(Val(content).improvedContent)
    /\ IF GenerateSucceeded
       THEN StoredDraft.status = "completed" /\ StoredDraft.improvedBody > 0
       ELSE StoredDraft.status = "failed"

\* The simple apply has passed its checks and changed its copy of the item.
SimpleApplyChanges ==
  /\ h["ApplyImprovedContent"].pc = "idle"
  /\ h'["ApplyImprovedContent"].pc = "setContentSimple"

\* The simple apply writes its copy and answers.
SimpleApplyWrites ==
  /\ h["ApplyImprovedContent"].pc = "setContentSimple"
  /\ h'["ApplyImprovedContent"].pc = "done"

ReanalyzeApplyChanges ==
  /\ h["ApplyImprovedContent"].pc = "idle"
  /\ h'["ApplyImprovedContent"].pc = "setContent"

\* The re-analysis apply writes its copy to 'content'.
ReanalyzeApplyWrites ==
  /\ h["ApplyImprovedContent"].pc = "setContent"
  /\ h'["ApplyImprovedContent"].pc = "setWorkflow"

\* The re-analysis apply answers 200.
ReanalyzeApplyAnswers ==
  /\ env.apply = "reanalyze"
  /\ h["ApplyImprovedContent"].resp # 200
  /\ h'["ApplyImprovedContent"].resp = 200

\* The steps of the re-analysis apply by themselves: it writes the item it
\* read with body = improvedBody, aiAnalysis and recommendations cleared and
\* status pending, and the emit of content.created is the step that answers
\* 200 and its only emit.
ReanalyzeApplyOwnSteps ==
  [][/\ ReanalyzeApplyChanges =>
          LET read == Val(content)
              copy == Val(h'["ApplyImprovedContent"].cs)
          IN /\ copy.body = Val(read.improvedContent).improvedBody
             /\ copy.aiAnalysis = None
             /\ copy.recommendations = None
             /\ copy.workflowStatus = "pending"
     /\ ReanalyzeApplyWrites =>
          /\ content' = h["ApplyImprovedContent"].cs
          /\ Val(content').workflowStatus = "pending"
          /\ Val(content').aiAnalysis = None
          /\ Val(content').recommendations = None
          /\ Val(content').body = Val(Val(content').improvedContent).improvedBody
     /\ ReanalyzeApplyAnswers =>
          /\ h["ApplyImprovedContent"].wrote = "pending"
          /\ h["ApplyImprovedContent"].wroteWf = "pending"
          /\ events' = events (+) SetToBag({Event("content.created", None)})
     /\ (/\ env.apply = "reanalyze"
         /\ h'["ApplyImprovedContent"] # h["ApplyImprovedContent"]
         /\ h'["ApplyImprovedContent"].resp # 200) =>
          events' = events]_vars

\* C21: when the re-analysis apply answers 200, the stored item has body =
\* improvedBody, no aiAnalysis, no recommendations and status pending, and
\* the request has emitted one content.created event.
C21_ReanalyzeApplyLeavesItemReset ==
  (/\ h["ApplyImprovedContent"].pc = "done"
   /\ h["ApplyImprovedContent"].resp = 200
   /\ env.apply = "reanalyze") =>
     /\ IsSome(content)
     /\ Val(content).body = Val(h["ApplyImprovedContent"].cs).body
     /\ Val(content).aiAnalysis = None
     /\ Val(content).recommendations = None
     /\ StoredStatus = "pending"
     /\ h["ApplyImprovedContent"].emitted = "content.created"
     /\ ~h["ApplyImprovedContent"].emitFailed

\* The re-analysis apply has answered 200 on a completed item: the item is
\* pending with the improved body and without analysis and recommendations,
\* and content.created is queued.
C21_Witness ==
  /\ h["ApplyImprovedContent"].pc = "done"
  /\ h["ApplyImprovedContent"].resp = 200
  /\ env.apply = "reanalyze"
  /\ IsSome(content)
  /\ StoredStatus = "pending"
  /\ Val(content).body = Val(Val(content).improvedContent).improvedBody
  /\ Val(content).aiAnalysis = None
  /\ Val(content).recommendations = None
  /\ IsSome(Val(content).validationResult)
  /\ workflow = Some("pending")
  /\ BagIn(Event("content.created", None), events)

\* The steps of a vote request r: it reads the vote map, writes the vote
\* map, writes the item.
VoteReads(r) == h[r].pc = "getVotes" /\ h'[r].pc = "setVotes"
VoteWritesMap(r) == h[r].pc = "setVotes" /\ h'[r].pc = "setContent"
VoteWritesItem(r) == h[r].pc = "setContent" /\ h'[r].pc = "push"

\* The votes aggregate of recommendation recId in an item.
VotesOn(c, recId) ==
  Val(c.recommendations)[FindRec(c.recommendations, recId)].votes

\* The request r repeats the vote its user has in the stored map.
RepeatsVote(r) ==
  /\ IsSome(coll.votes[h[r].recId])
  /\ Val(coll.votes[h[r].recId])[Val(h[r].body).userId] = Val(h[r].body).vote

\* C22: a vote request that repeats the vote its user already has in the
\* map (up after up, down after down) arrives at the map it read, with one
\* entry of that user, and at the counts of the map it read; writing them
\* leaves the stored map as it is.
C22_RepeatedVoteIsIdempotent ==
  [][\A r \in VoteRequests :
       LET stored == coll.votes[h[r].recId]
           userId == Val(h[r].body).userId
       IN /\ (VoteReads(r) /\ RepeatsVote(r)) =>
               /\ h'[r].votes = stored
               /\ Val(h'[r].votes)[userId] = Val(h[r].body).vote
               /\ Cardinality({u \in {userId} : Val(h'[r].votes)[u] # ""}) = 1
          /\ (VoteWritesMap(r) /\ RepeatsVote(r) /\ h[r].votes = stored) =>
               /\ coll' = coll
               /\ VotesOn(Val(h'[r].cs), h[r].recId) = Some(RecVotes(Val(stored)))]_vars

\* u1 has cast up twice on review_1, both answered 200: the map holds one
\* up entry, of u1, and the item shows one upvote and no downvote.
C22_Witness ==
  /\ \A r \in VoteRequests :
       /\ h[r].pc = "done" /\ h[r].resp = 200
       /\ h[r].body = Some([userId |-> "u1", vote |-> "up"])
       /\ h[r].recId = "review_1"
  /\ count.vote = 2
  /\ coll.votes["review_1"] = Some([EmptyVotes EXCEPT !["u1"] = "up"])
  /\ VotesOn(Val(content), "review_1") =
       Some([upvotes |-> 1, downvotes |-> 0,
             userVotes |-> [EmptyVotes EXCEPT !["u1"] = "up"]])

\* The numbers of up entries and of down entries of a vote map, and the
\* users that have an entry.
UpEntries(votes) == Cardinality({u \in Users : votes[u] = "up"})
DownEntries(votes) == Cardinality({u \in Users : votes[u] = "down"})
Voters(votes) == {u \in Users : votes[u] # ""}

\* The counts on the recommendation are those of the vote map.
CountsMatch(aggregate, votes) ==
  /\ IsSome(aggregate)
  /\ Val(aggregate).upvotes = UpEntries(votes)
  /\ Val(aggregate).downvotes = DownEntries(votes)
  /\ Val(aggregate).upvotes + Val(aggregate).downvotes = Cardinality(Voters(votes))

VotesOverlapped(r1, r2) ==
  /\ h[r1].pc = "done" /\ h[r1].resp = 200
  /\ h[r2].pc = "done" /\ h[r2].resp = 200
  /\ h[r1].recId = h[r2].recId
  /\ Val(h[r1].body).userId # Val(h[r2].body).userId
  /\ Val(h[r1].votes)[Val(h[r2].body).userId] = ""
  /\ Val(h[r2].votes)[Val(h[r1].body).userId] = ""

\* C24: a vote request writes the map it read with its own entry over the
\* stored map, whatever another request has stored since the read; so after
\* two overlapping requests of different users, both answered 200, the
\* stored map is the map of one of them and holds one of the two votes.
C24_ConcurrentVotesLoseUpdates ==
  /\ [][\A r \in VoteRequests :
          VoteWritesMap(r) => coll'.votes[h[r].recId] = h[r].votes]_vars
  /\ [](\A r1, r2 \in VoteRequests :
          VotesOverlapped(r1, r2) =>
            /\ coll.votes[h[r1].recId] \in {h[r1].votes, h[r2].votes}
            /\ \/ Val(coll.votes[h[r1].recId])[Val(h[r1].body).userId] = ""
               \/ Val(coll.votes[h[r1].recId])[Val(h[r2].body).userId] = "")

\* u1 and u2 have voted on review_1 side by side, both answered 200, and the
\* stored map has the entry of one of them only.
C24_Witness ==
  /\ VotesOverlapped("VoteRecommendation/1", "VoteRecommendation/2")
  /\ h["VoteRecommendation/1"].recId = "review_1"
  /\ count.vote = 2
  /\ Cardinality(Voters(Val(coll.votes["review_1"]))) = 1

\* The retention job deletes the content record, the workflow record, of
\* the item c1.
RetentionDeletesContent ==
  /\ h["DailyProcessing"].pc = "deleteContent"
  /\ h'["DailyProcessing"].pc = "deleteWorkflow"
  /\ Head(h["DailyProcessing"].todo).contentId = "c1"

RetentionDeletesWorkflow ==
  /\ h["DailyProcessing"].pc = "deleteWorkflow"
  /\ h'["DailyProcessing"].pc # "deleteWorkflow"
  /\ Head(h["DailyProcessing"].todo).contentId = "c1"

NonTerminal == {"pending", "validated", "analyzing", "analyzed"}

\* C25: at the moment the retention job deletes the content record and the
\* workflow record of an item, the item is not in a non-terminal status
\* (pending, validated, analyzing, analyzed), whatever its age and whatever
\* other handlers have done to it while the job ran.
C25_RetentionSparesNonTerminal ==
  [][/\ (RetentionDeletesContent /\ IsSome(content)) =>
          Val(content).workflowStatus \notin NonTerminal
     /\ (RetentionDeletesWorkflow /\ IsSome(workflow)) =>
          Val(workflow) \notin NonTerminal]_vars

\* The content record, the workflow record, of item id after a step.
ContentRecordAfter(id) == IF id = "c1" THEN content' ELSE coll'.c2.content
WorkflowRecordAfter(id) == IF id = "c1" THEN workflow' ELSE coll'.c2.workflow

\* The ids the finished or running job has pushed to deletedContentIds.
DeletedIds ==
  {h["DailyProcessing"].deleted[j] : j \in 1..Len(h["DailyProcessing"].deleted)}

AllFieldsPresent ==
  /\ env.request.title # 0 /\ env.request.body # 0
  /\ env.request.author # "" /\ env.request.language # ""

\* POST /content takes the request; it emits and answers.
CreateChecks ==
  h["CreateContent"].pc = "idle" /\ h'["CreateContent"].pc # "idle"

CreateAnswered == h["CreateContent"].pc = "done"

\* What POST /content does up to its answer, whatever the answer is: with a
\* field missing it answers 400 at once and stores and emits nothing; with
\* all fields it stores the item, pending, with the fields of the request,
\* and the workflow record, pending, and its only emit is the one of
\* content.created that comes with the answer.
CreateStepsAsSpecified ==
  [][/\ (CreateChecks /\ ~AllFieldsPresent) =>
          /\ h'["CreateContent"].pc = "done" /\ h'["CreateContent"].resp = 400
          /\ content' = None /\ workflow' = None /\ events' = EmptyBag
     /\ (CreateChecks /\ AllFieldsPresent) =>
          /\ IsSome(content')
          /\ Val(content').workflowStatus = "pending"
          /\ Val(content').title = env.request.title
          /\ Val(content').body = env.request.body
          /\ Val(content').author = env.request.author
          /\ Val(content').language = env.request.language
          /\ events' = EmptyBag
     /\ (h["CreateContent"].pc = "setWorkflow" /\ h'["CreateContent"].pc = "emit") =>
          workflow' = Some("pending") /\ events' = EmptyBag
     /\ (h["CreateContent"].pc = "emit" /\ h'["CreateContent"].pc = "done") =>
          IF h'["CreateContent"].resp = 201
          THEN events' = SetToBag({Event("content.created", None)})
          ELSE events' = EmptyBag /\ h'["CreateContent"].resp = 500]_vars

\* C27: POST /content with title, body, author and language present has
\* stored the item with status pending, emitted one content.created event
\* and answers 201; with one of the four missing it answers 400 and has
\* stored and emitted nothing.
C27_CreateAnswers ==
  /\ CreateStepsAsSpecified
  /\ [](CreateAnswered =>
          IF AllFieldsPresent
          THEN /\ h["CreateContent"].resp = 201
               /\ IsSome(content) /\ StoredStatus = "pending"
               /\ events = SetToBag({Event("content.created", None)})
          ELSE /\ h["CreateContent"].resp = 400
               /\ content = None /\ workflow = None /\ events = EmptyBag)

\* What holds of the answers: with all four fields present the answer is
\* 201 only if the emit of content.created succeeds; if it fails the answer
\* is 500, no event has been emitted and the item stays stored with status
\* pending.
CreateAnswersWithEmitFailure ==
  /\ CreateStepsAsSpecified
  /\ [](CreateAnswered =>
          IF AllFieldsPresent
          THEN /\ IsSome(content) /\ StoredStatus = "pending"
               /\ workflow = Some("pending")
               /\ IF h["CreateContent"].emitFailed
                  THEN h["CreateContent"].resp = 500 /\ events = EmptyBag
                  ELSE /\ h["CreateContent"].resp = 201
                       /\ events = SetToBag({Event("content.created", None)})
          ELSE /\ h["CreateContent"].resp = 400
               /\ content = None /\ workflow = None /\ events = EmptyBag)

\* A request with all four fields has been answered 201: the item is stored
\* pending and content.created is queued.
C27_Witness ==
  /\ CreateAnswered
  /\ AllFieldsPresent
  /\ h["CreateContent"].resp = 201
  /\ StoredStatus = "pending"
  /\ BagCardinality(events) = 1
  /\ BagIn(Event("content.created", None), events)

\* DELETE /content/:id has answered 200.
DeleteAnswered200 ==
  h["DeleteContent"].pc = "done" /\ h["DeleteContent"].resp = 200

\* The steps of DELETE and GET by themselves: DELETE on an absent item
\* answers 404 and changes no state, on an existing item it deletes the
\* content record, then the workflow record, and answers 200; GET answers
\* 404 exactly when there is no content record.
DeleteAndGetOwnSteps ==
  [][/\ (h["DeleteContent"].pc = "idle" /\ h'["DeleteContent"].pc # "idle") =>
          /\ <<content, workflow, coll, events>>' = <<content, workflow, coll, events>>
          /\ IF IsSome(content)
             THEN h'["DeleteContent"].pc = "deleteContent"
             ELSE h'["DeleteContent"].pc = "done" /\ h'["DeleteContent"].resp = 404
     /\ (h["DeleteContent"].pc = "deleteContent" /\ h'["DeleteContent"].pc # "deleteContent") =>
          content' = None /\ h'["DeleteContent"].pc = "deleteWorkflow"
     /\ (h["DeleteContent"].pc = "deleteWorkflow" /\ h'["DeleteContent"].pc # "deleteWorkflow") =>
          workflow' = None /\ h'["DeleteContent"].resp = 200
     /\ (h["GetContent"].pc = "idle" /\ h'["GetContent"].pc = "done") =>
          h'["GetContent"].resp = (IF IsSome(content) THEN 200 ELSE 404)]_vars

\* C28: when DELETE /content/:id on an existing item answers 200, the
\* content record and the workflow record are gone and a GET /content/:id
\* made then answers 404; on an absent item DELETE answers 404 and changes
\* no state.
C28_DeleteRemovesThenGet404 ==
  /\ DeleteAndGetOwnSteps
  /\ [](DeleteAnswered200 => content = None /\ workflow = None)
  /\ [][(DeleteAnswered200 /\ h["GetContent"].pc = "idle" /\ h'["GetContent"].pc = "done") =>
          h'["GetContent"].resp = 404]_vars

\* DELETE has answered 200 with both records gone, and the GET made then
\* has answered 404.
C28_Witness ==
  /\ DeleteAnswered200
  /\ content = None /\ workflow = None
  /\ h["GetContent"].pc = "done" /\ h["GetContent"].resp = 404
  /\ count.create = 1
  /\ IsSome(submitted)

\* The stored comments of contentId c.
StoredComments(c) == {id \in CommentIds : IsSome(coll.comments[c][id])}

\* What holds of the stored comments whatever ids are synthesized: no step
\* removes a comment or touches the comments of another contentId, and a
\* stored comment changes only in the set of a request whose id is the id
\* of that comment.
CommentsKeptUnlessIdRepeats ==
  [][\A c \in ContentIds : \A id \in StoredComments(c) :
       /\ IsSome(coll'.comments[c][id])
       /\ coll'.comments[c][id] # coll.comments[c][id] =>
            \E r \in CommentRequests :
              /\ h[r].pc = "set" /\ h'[r].pc = "send"
              /\ Val(h[r].comment).contentId = c
              /\ Val(h[r].comment).id = id
              /\ coll'.comments[c][id] = h[r].comment]_vars

\* C29: no step changes or removes a stored comment, and an add-comment
\* request stores its comment under an id that no stored comment of the
\* contentId has.
C29_CommentsAppendOnly ==
  [][/\ \A c \in ContentIds : \A id \in StoredComments(c) :
          coll'.comments[c][id] = coll.comments[c][id]
     /\ \A r \in CommentRequests :
          (h[r].pc = "set" /\ h'[r].pc = "send") =>
             Val(h[r].comment).id \notin StoredComments(Val(h[r].comment).contentId)]_vars

\* Two comments with different ids are stored for c1, the first of them as
\* it was stored.
C29_Witness ==
  /\ Cardinality(StoredComments("c1")) = 2
  /\ StoredComments("c2") = {}
  /\ \E id \in StoredComments("c1") : Val(coll.comments["c1"][id]).text = "t1"
  /\ \E id \in StoredComments("c1") : Val(coll.comments["c1"][id]).text = "t2"
  /\ \A r \in CommentRequests : h[r].pc = "idle"

\* C30: when ValidateContent ends after the validation_completed push has
\* failed for an item it wrote as validated, it has emitted
\* content.validated, so that the analysis is triggered.
C30_PushFailureStillEmitsValidated ==
  (/\ h["ValidateContent"].pc = "done"
   /\ h["ValidateContent"].wrote = "validated"
   /\ h["ValidateContent"].pushed = "validation_completed"
   /\ h["ValidateContent"].pushFailed) =>
     /\ h["ValidateContent"].emitted = "content.validated"
     /\ BagIn(Event("content.validated", None), events)


(***************************************************************************)
(* The two records of an item.                                             *)
(***************************************************************************)
\* No invocation of a handler is between its first and its last step.
NoHandlerRunning == \A n \in DOMAIN h : h[n].pc = "idle"

\* The 'workflow' record exists exactly when the 'content' record does and
\* holds the status the 'content' record holds.
RecordsAgree ==
  /\ IsSome(content) <=> IsSome(workflow)
  /\ IsSome(content) => Val(workflow) = StoredStatus

\* C31: whenever no handler is in the middle of executing on the item, its
\* 'workflow' record has the status of the workflowStatus field of its
\* 'content' record, and one record exists if and only if the other does.
C31_RecordsAgreeAtRest ==
  NoHandlerRunning => RecordsAgree

\* The pipeline has completed the item, an improvement generation has run on
\* it, and nothing is running any more.
C31_Witness ==
  /\ NoHandlerRunning
  /\ IsSome(content)
  /\ StoredStatus = "completed"
  /\ IsSome(Val(content).improvedContent)
  /\ RecordsAgree


(***************************************************************************)
(* The frame of a vote.                                                    *)
(***************************************************************************)
\* The item request r writes differs from the stored item in nothing but
\* the votes aggregate of the recommendation r votes on.
VoteKeepsTheRest(r) ==
  LET old == Val(content)
      new == Val(content')
      i == FindRec(new.recommendations, h[r].recId)
  IN /\ IsSome(content)
     /\ new.title = old.title
     /\ new.body = old.body
     /\ new.language = old.language
     /\ new.workflowStatus = old.workflowStatus
     /\ new.validationResult = old.validationResult
     /\ new.aiAnalysis = old.aiAnalysis
     /\ new.improvedContent = old.improvedContent
     /\ IsSome(old.recommendations)
     /\ Len(Val(new.recommendations)) = Len(Val(old.recommendations))
     /\ \A j \in 1..Len(Val(new.recommendations)) :
          j # i => Val(new.recommendations)[j] = Val(old.recommendations)[j]

\* C32: under every interleaving with other handlers on the item, the vote
\* handler's write of the item changes nothing but the votes aggregate of
\* the recommendation voted on: body, workflowStatus, aiAnalysis,
\* improvedContent and the other recommendations stay as stored.
C32_VoteChangesOnlyItsAggregate ==
  [][VoteWritesItem(Voter) => VoteKeepsTheRest(Voter)]_vars

\* A vote has written the item while a generation is in progress, and the
\* item holds the draft.
C32_Witness ==
  /\ h[Voter].pc = "push"
  /\ h["GenerateImprovedContent"].pc \notin {"idle", "done"}
  /\ IsSome(content)
  /\ IsSome(Val(content).improvedContent)
  /\ IsSome(VotesOn(Val(content), h[Voter].recId))


(***************************************************************************)
(* One generation at a time.                                               *)
(***************************************************************************)
\* An improve request has been answered 202 and its generation has not
\* finished: its event waits for the generate handler, or the handler runs.
GenerationInProgress ==
  \/ BagIn(Event("content.improvement.requested", None), events)
  \/ h["GenerateImprovedContent"].pc \notin {"idle", "done"}

\* The improve request handler makes its checks in this step.
ImproveChecksNow ==
  /\ h["RequestContentImprovement"].pc = "idle"
  /\ h'["RequestContentImprovement"].pc # "idle"

\* C33: at most one improvement generation is in progress for the item: an
\* improve request made after another was answered 202, and before that
\* one's generation has finished, is answered 409.
C33_SecondImproveAnswered409 ==
  [][(ImproveChecksNow /\ GenerationInProgress)
       => /\ h'["RequestContentImprovement"].pc = "done"
          /\ h'["RequestContentImprovement"].resp = 409]_vars

\* A second improve request has been answered 409 during a generation.
C33_Witness ==
  /\ h["RequestContentImprovement"].resp = 409
  /\ count.improve = 2
  /\ h["GenerateImprovedContent"].pc = "llm"


(***************************************************************************)
(* The end of a generation.                                                *)
(***************************************************************************)
ImproveAnswered202 == h["RequestContentImprovement"].resp = 202

\* The stored item holds a draft that is completed or failed.
DraftSettled ==
  /\ IsSome(content)
  /\ IsSome(Val(content).improvedContent)
  /\ StoredDraft.status \in {"completed", "failed"}

\* C34: every improve request answered 202 eventually leads to a stored
\* improvedContent.status of completed or failed, also when MISTRAL_API_KEY
\* is missing; improvedContent does not stay absent or generating forever.
C34_GenerationEventuallySettles ==
  ImproveAnswered202 ~> DraftSettled

\* With the API key set, a request answered 202 leads to a settled draft.
GenerationSettlesWithKey ==
  (ImproveAnswered202 /\ env.apiKey) ~> DraftSettled

\* A request was answered 202 and the generation has stored its draft.
C34_Witness ==
  /\ DraftSettled
  /\ StoredDraft.status = "completed"
  /\ h["GenerateImprovedContent"].emitted = "content.improvement.completed"


(***************************************************************************)
(* After a deletion.                                                       *)
(***************************************************************************)
NoRecord == content = None /\ workflow = None

\* C35: a deleted item stays deleted: after DELETE /content/:id has answered
\* 200 no content record and no workflow record of the item exists again,
\* also when a stage handler for the item was in progress at the deletion.
C35_DeletedStaysDeleted ==
  [](DeleteAnswered200 => []NoRecord)

\* After the 200 of DELETE the content record does not exist again.
ContentStaysDeleted ==
  [](DeleteAnswered200 => [](content = None))

\* DELETE has answered 200 on an item the pipeline had completed; no record
\* is left and nothing is running or queued for it.
C35_Witness ==
  /\ DeleteAnswered200
  /\ NoRecord
  /\ furthest = 3
  /\ \A n \in StageHandlers : h[n].pc = "idle"


(***************************************************************************)
(* The status and the stage results of the stored item.                    *)
(***************************************************************************)
\* C36: the stored status is consistent with the stored stage results: an
\* item that is analyzed or completed has an aiAnalysis, an item that is
\* completed has a recommendations list that is not empty, and an item that
\* is rejected has a validationResult with isValid = false.
C36_StatusMatchesStageResults ==
  IsSome(content) =>
    /\ StoredStatus \in {"analyzed", "completed"} => IsSome(Val(content).aiAnalysis)
    /\ StoredStatus = "completed" =>
         /\ IsSome(Val(content).recommendations)
         /\ Len(Val(Val(content).recommendations)) > 0
    /\ StoredStatus = "rejected" =>
         /\ IsSome(Val(content).validationResult)
         /\ ~Val(Val(content).validationResult).isValid

\* The recommendation stage has stored a completed item that holds its
\* analysis and its recommendations.
C36_Witness ==
  /\ h["GenerateRecommendations"].wrote = "completed"
  /\ IsSome(content)
  /\ StoredStatus = "completed"
  /\ IsSome(Val(content).aiAnalysis)
  /\ IsSome(Val(content).recommendations)
  /\ Len(Val(Val(content).recommendations)) > 0


(***************************************************************************)
(* fetchWithRetry.                                                         *)
(***************************************************************************)
\* A failure after which the call may try again: the timeout of the
\* request, a network error, a response whose status is in retryableStatuses.
RetryableFailure(outcome) ==
  IF outcome.kind = "response" THEN outcome.status \in env.retryableStatuses
  ELSE Val(outcome.error) \in {AbortError, NetworkError}

FetchEnded == h.pc \in {"returned", "thrown"}

\* C37: fetchWithRetry makes at most maxRetries + 1 fetch attempts; it makes
\* a further attempt only after a retryable failure (timeout, network
\* error, response status in retryableStatuses); it returns a response with
\* a non-retryable status without retrying; and it always ends, returning a
\* response or throwing the last error.
C37_FetchWithRetryBounded ==
  /\ [](count.fetch <= env.maxRetries + 1)
  /\ [][count'.fetch > count.fetch =>
          (count.fetch = 0 \/ (IsSome(h.last) /\ RetryableFailure(Val(h.last))))]_vars
  /\ [][(/\ count'.fetch > count.fetch
         /\ Val(h'.last).kind = "response"
         /\ Val(h'.last).status \notin env.retryableStatuses)
          => (h'.pc = "returned" /\ h'.result = h'.last)]_vars
  /\ [][FetchEnded => UNCHANGED vars]_vars
  /\ [](h.pc = "returned" => (h.result = h.last /\ Val(h.last).kind = "response"))
  /\ [](h.pc = "thrown" => (IsSome(h.lastError) /\ h.result = h.lastError))
  /\ <>FetchEnded

\* The call has used all its attempts, each after a retryable failure, and
\* has thrown the last error.
C37_Witness ==
  /\ h.pc = "thrown"
  /\ env.maxRetries = MaxMaxRetries
  /\ count.fetch = env.maxRetries + 1
  /\ Val(h.last) = Response(503)
  /\ h.result = Some(FetchError(503))


(***************************************************************************)
(* MotiaStreamClient.                                                      *)
(***************************************************************************)
\* A reconnect is scheduled in this step.
ReconnectScheduled == h'.timers > h.timers

\* Socket i closes in this step.
Closes(i) == coll[i].readyState # "CLOSED" /\ coll'[i].readyState = "CLOSED"

\* C38: the client attempts a reconnect only if the connection had been
\* opened before: the close of a socket that never opened, the first of a
\* new client included, is followed by no further connection attempt.
C38_ReconnectOnlyAfterOpen ==
  [][\A i \in DOMAIN coll :
       (Closes(i) /\ ~coll[i].opened) => ~ReconnectScheduled]_vars

\* An open connection was lost and a reconnect is scheduled.
C38_Witness ==
  /\ Len(coll) = 1
  /\ coll[1] = Socket("CLOSED", TRUE)
  /\ h.timers = 1
  /\ h.reconnectAttempts = 1
  /\ ~h.disconnected

\* C39: after disconnect() the client opens no new WebSocket unless its
\* user calls connect() or subscribe() again; the close event of the socket
\* that disconnect() closed starts no reconnect.
C39_NoSocketAfterDisconnect ==
  [][(h.disconnected /\ h'.disconnected) => Len(coll') = Len(coll)]_vars

\* After disconnect() the close event of the socket it closed schedules no
\* reconnect.
CloseAfterDisconnectSchedulesNothing ==
  [][(h.disconnected /\ \E i \in DOMAIN coll : Closes(i)) => ~ReconnectScheduled]_vars

\* disconnect() was called on a client whose socket had already closed
\* without a reconnect pending: nothing is left to happen.
C39_Witness ==
  /\ h.disconnected
  /\ h.timers = 0
  /\ Len(coll) = 2
  /\ \A i \in DOMAIN coll : coll[i].readyState = "CLOSED"

====
